---- MODULE Spec2Model ----
(***************************************************************************)
(* Streamline integration and seeding of lib/matplotlib/streamplot.py:     *)
(* the StreamMask protocol (SpecMask), streamplot's seed loop with its     *)
(* integrators (SpecStream), the seed generator _gen_starting_points       *)
(* (SpecGen, and SpecSeeds for every shape), DomainMap's trajectory        *)
(* methods (SpecDomain), Grid with its valid_index test (SpecGrid),        *)
(* interpgrid (SpecInterp) and the construction of a StreamMask            *)
(* (SpecDensity).                                                          *)
(*                                                                         *)
(* 3D collections of lib/mpl_toolkits/mplot3d/art3d.py: Poly3DCollection   *)
(* (SpecPoly), Path3DCollection (SpecPath), Bar3DCollection (SpecBar) and  *)
(* the shading function _shade_colors (SpecShade).  Colours, brightness    *)
(* and sort keys are exact rationals <<numerator, denominator>>.           *)
(*                                                                         *)
(* Numbers.  Grid coordinates and path lengths are real numbers in the     *)
(* source.  They are modelled exactly, as integer multiples of 1/Q: every  *)
(* quantity the modelled runs compute (seeds, Runge-Kutta stages, steps    *)
(* and lengths for uniform axis-aligned velocity fields) is a multiple of  *)
(* 1/Q, so no rounding takes place in the model.  The IEEE values          *)
(* +inf, -inf and nan that the Euler fallback can produce are the three    *)
(* sentinels PosInf, NegInf and NaN, handled by the Ext* operators.        *)
(***************************************************************************)
EXTENDS Integers, Sequences, FiniteSets, TLC

(***************************************************************************)
(* Bounds of the model.                                                    *)
(***************************************************************************)
\* StreamMask protocol runs (SpecMask): the mask is ApiSide x ApiSide,
\* at most MaxTraj trajectories are started and _traj holds at most
\* MaxTrajLen cells.
ApiSide == 2
MaxTraj == 3
MaxTrajLen == 3
\* streamplot runs (SpecStream): grids of 2 .. MaxGrid points and masks of
\* 2 .. MaxMask cells per axis.
MaxGrid == 3
MaxMask == 3
\* _gen_starting_points runs (SpecGen): masks of 2 .. MaxSide cells per axis.
MaxSide == 5
\* Grid runs (SpecGrid): coordinate arrays of 2 .. MaxGrid values taken from
\* 0 .. MaxCoord.
MaxCoord == 3
\* Poly3DCollection runs (SpecPoly): collections of 0 .. MaxPolys polygons.
MaxPolys == 2
\* 3D collection runs: a run calls setters at most MaxSetterCalls times
\* (SpecPoly, SpecPath) or MaxBarSetterCalls times (SpecBar), and projects,
\* draws and reads as often as it likes.
MaxSetterCalls == 2
MaxBarSetterCalls == 1
\* Path3DCollection runs (SpecPath): collections of 1 .. MaxMarkers markers.
MaxMarkers == 2
\* _shade_colors runs (SpecShade): batches of 1 .. MaxNormals normals.
MaxNormals == 2
\* StreamMask construction runs (SpecDensity): densities of 0 .. MaxDensity
\* hundredths.
MaxDensity == 110

VARIABLES
    inp,            \* streamplot's arguments and the shapes built from them
    _mask,          \* StreamMask._mask: [<<ym, xm>> -> 0 | 1]
    _traj,          \* StreamMask._traj: cells set by the current trajectory
    _current_xy,    \* StreamMask._current_xy: <<xm, ym>>, or None
    gen,            \* the frame of the generator _gen_starting_points
    pc,             \* where streamplot is: "seeds", "forward", "backward",
                    \* "done" (seed loop finished), "raised" (exception left it)
    seed,           \* rk4_integrate's x0, y0
    it,             \* the frame of the running _integrate call
    fwd,            \* sf, xf_traj, yf_traj: what the forward call returned
    trajectories,   \* streamplot's list of kept trajectories
    result,         \* streamplot's t: what the last integrate call returned;
                    \* in 3D collection runs, what the last call returned
    exc,            \* the exception that left streamplot ("none": none)
    maskAtStart,    \* history: _mask when the last start_trajectory was called
    owner,          \* history: cell -> id of the trajectory that set it (0: free)
    trajId,         \* history: id of the current trajectory (0: none started)
    last,           \* history: the last StreamMask call, its target and outcome;
                    \* in 3D collection runs, the last method called and the
                    \* number of setter calls so far
    yielded,        \* history: the points _gen_starting_points has yielded
    args,           \* the arrays x and y handed to Grid; in 3D collection
                    \* runs, the constructor's arguments
    grid,           \* the Grid object
    probe,          \* the last valid_index or interpgrid call: its arguments
                    \* and its result
    col,            \* the 3D collection object: its fields
    drawn           \* the arrays the last call, a draw, handed to the renderer

vars == <<inp, _mask, _traj, _current_xy, gen, pc, seed, it, fwd, trajectories,
          result, exc, maskAtStart, owner, trajId, last, yielded, args, grid, probe,
          col, drawn>>

streamVars == <<inp, gen, pc, seed, it, fwd, trajectories, result, exc, maskAtStart>>
maskHistory == <<owner, trajId, last>>
genHistory == <<yielded>>
gridVars == <<args, grid, probe>>
artVars == <<col, drawn>>

None == <<>>

(***************************************************************************)
(* Numbers                                                                 *)
(***************************************************************************)
\* Lattice points per unit.  100 | Q carries the step sizes 0.01, 0.03 and
\* 0.1; 8 and 13 carry the Runge-Kutta-Fehlberg stage abscissae 1/4, 3/8,
\* 12/13, 1/2; 2..6 | Q carries mask2grid for masks and grids of up to 7 and
\* 6 points per axis.
Q == 100 * 8 * 3 * 13

\* IEEE specials.  Every finite quantity of the model lies strictly between.
PosInf == 2 ^ 30
NegInf == -PosInf
NaN == PosInf + 1

IsFin(a) == NegInf < a /\ a < PosInf

Sign(a) == IF a > 0 THEN 1 ELSE IF a < 0 THEN -1 ELSE 0

Abs(a) == IF a < 0 THEN -a ELSE a

Min(a, b) == IF b < a THEN b ELSE a

\* a + b in IEEE arithmetic.
ExtAdd(a, b) ==
    IF a = NaN \/ b = NaN THEN NaN
    ELSE IF IsFin(a) /\ IsFin(b) THEN a + b
    ELSE IF IsFin(a) THEN b
    ELSE IF IsFin(b) THEN a
    ELSE IF a = b THEN a ELSE NaN

\* a < b and a > b in IEEE arithmetic: false as soon as one side is nan.
ExtLess(a, b) == a # NaN /\ b # NaN /\ a < b
ExtGreater(a, b) == ExtLess(b, a)

\* Python's min(a, b): the first argument unless the second compares smaller.
PyMin(a, b) == IF ExtLess(b, a) THEN b ELSE a

\* A float that may be a signed zero: sign s in {1, -1} and magnitude m >= 0
\* (in whole grid units per unit of path length).
Flt(s, m) == [s |-> s, m |-> m]
Val(k) == k.s * k.m
Neg(k) == Flt(-k.s, k.m)

\* int(x) of Python for a lattice number: truncation towards zero.
Trunc(a, unit) == IF a >= 0 THEN a \div unit ELSE -((-a) \div unit)

\* numpy's test of one index against an axis of length n: negative indices
\* count from the end, anything outside -n .. n-1 raises IndexError.
IndexOk(i, n) == -n <= i /\ i <= n - 1

RECURSIVE Gcd(_, _)
Gcd(a, b) == IF b = 0 THEN Abs(a) ELSE Gcd(b, a % b)

\* Rationals <<numerator, denominator>> in lowest terms, denominator > 0.
Rat(n, d) == LET g == Gcd(Abs(n), d) IN IF n = 0 THEN <<0, 1>> ELSE <<n \div g, d \div g>>
RatAdd(p, q) ==
    LET g == Gcd(p[2], q[2])
    IN  Rat(p[1] * (q[2] \div g) + q[1] * (p[2] \div g), (p[2] \div g) * q[2])
RatMulInt(p, k) == Rat(p[1] * k, p[2])
\* The lattice number p * a, for a rational p and a lattice number a.
RatScale(p, a) == (p[1] * a) \div p[2]

(***************************************************************************)
(* StreamMask                                                              *)
(***************************************************************************)
\* The cells of a mask whose shape is (ny, nx), keyed as the array is: [ym, xm].
Cells(ny, nx) == (0 .. ny - 1) \X (0 .. nx - 1)

\* StreamMask.__init__, lines 267-270: an all-zero array, no current cell.
NewMask(ny, nx) == [c \in Cells(ny, nx) |-> 0]

\* A StreamMask as a value: the three attributes the methods read and write.
MaskState(m, t, c) == [mask |-> m, traj |-> t, cur |-> c]

\* _update_trajectory as it would be if it entered the cell before it tested
\* the mask: on an occupied cell _traj and _current_xy have changed when the
\* exception is raised.
UpdateEntersThenRaises(ms, xm, ym) ==
    IF ms.cur # <<xm, ym>>
    THEN IF ms.mask[<<ym, xm>>] = 0
         THEN [ms  |-> MaskState([ms.mask EXCEPT ![<<ym, xm>>] = 1],
                                 Append(ms.traj, <<ym, xm>>), <<xm, ym>>),
               err |-> "none"]
         ELSE [ms |-> MaskState(ms.mask, Append(ms.traj, <<ym, xm>>), <<xm, ym>>),
               err |-> "InvalidIndexError"]
    ELSE [ms |-> ms, err |-> "none"]

\* StreamMask._update_trajectory: the state after the call and the exception
\* it raised ("none" when it returned).
_update_trajectory(ms, xm, ym) ==
    IF ms.cur # <<xm, ym>>
    THEN IF ms.mask[<<ym, xm>>] = 0
         THEN [ms  |-> MaskState([ms.mask EXCEPT ![<<ym, xm>>] = 1],
                                 Append(ms.traj, <<ym, xm>>), <<xm, ym>>),
               err |-> "none"]
         ELSE [ms |-> ms, err |-> "InvalidIndexError"]
    ELSE [ms |-> ms, err |-> "none"]

\* StreamMask._start_trajectory: _traj is emptied, then the cell is entered.
_start_trajectory(ms, xm, ym) ==
    _update_trajectory(MaskState(ms.mask, <<>>, ms.cur), xm, ym)

\* _undo_trajectory as it would be if it reset the mask: every cell zeroed,
\* those of earlier trajectories included.
UndoClearsWholeMask(ms) ==
    MaskState([c \in DOMAIN ms.mask |-> 0], ms.traj, ms.cur)

\* StreamMask._undo_trajectory: every cell of _traj is zeroed; _traj and
\* _current_xy are left as they are.
_undo_trajectory(ms) ==
    MaskState([c \in DOMAIN ms.mask |->
                  IF \E i \in 1 .. Len(ms.traj) : ms.traj[i] = c
                  THEN 0 ELSE ms.mask[c]],
              ms.traj, ms.cur)

\* DomainMap.reset_start_point, in mask coordinates: only _current_xy moves.
reset_start_point_m(ms, xm, ym) == MaskState(ms.mask, ms.traj, <<xm, ym>>)

\* The StreamMask of the state.
Here == MaskState(_mask, _traj, _current_xy)

\* numpy arrays of one and of two dimensions: the shape and the elements (a
\* sequence, or a sequence of rows).
Array1(elems) == [shape |-> <<Len(elems)>>, data |-> elems]
Array2(rows) == [shape |-> <<Len(rows), Len(rows[1])>>, data |-> rows]

\* np.allclose(a, b) for two numbers, with the default rtol = 1e-5 and
\* atol = 1e-8: |a - b| <= atol + rtol * |b|, both sides times 1e8.
Close(a, b) == Abs(a - b) * 100000000 <= 1 + 1000 * Abs(b)

\* np.allclose(x_row, x): every row of x against x_row, element by element.
RowsClose(x_row, x) ==
    \A r \in 1 .. Len(x.data) : \A k \in 1 .. Len(x_row) : Close(x_row[k], x.data[r][k])

\* np.allclose(y_col, y.T): every column of y against y_col.
ColsClose(y_col, y) ==
    \A r \in 1 .. Len(y.data) : \A k \in 1 .. Len(y.data[r]) : Close(y_col[r], y.data[r][k])

\* y[:, 0].
FirstCol(y) == [r \in 1 .. Len(y.data) |-> y.data[r][1]]

\* A failed assert of Grid.__init__.
AssertionError == [raised |-> "AssertionError"]

\* Grid.__init__, lines 228-238, for the one-dimensional x and y.
GridOf(x, y) ==
    [raised |-> "none", nx |-> Len(x), ny |-> Len(y),
     dx |-> x[2] - x[1], dy |-> y[2] - y[1],
     x_origin |-> x[1], y_origin |-> y[1],
     width |-> x[Len(x)] - x[1], height |-> y[Len(y)] - y[1]]

\* Grid.__init__, lines 221-226: y reduced to one dimension.
GridWithX(x, y) ==
    IF Len(y.shape) = 2
    THEN IF ColsClose(FirstCol(y), y) THEN GridOf(x, FirstCol(y)) ELSE AssertionError
    ELSE IF Len(y.shape) = 1 THEN GridOf(x, y.data) ELSE AssertionError

\* Grid.__init__, lines 214-219, then the rest: the Grid object, or the
\* exception a failed assert raises.  No line compares the spacings of x or y.
Grid(x, y) ==
    IF Len(x.shape) = 2
    THEN IF RowsClose(x.data[1], x) THEN GridWithX(x.data[1], y) ELSE AssertionError
    ELSE IF Len(x.shape) = 1 THEN GridWithX(x.data, y) ELSE AssertionError

\* valid_index as it would be with `<` for `<=` at the upper edges.
ValidIndexOpenAbove(nx, ny, xi, yi) ==
    xi >= 0 /\ xi < (nx - 1) * Q /\ yi >= 0 /\ yi < (ny - 1) * Q

(***************************************************************************)
(* Grid and DomainMap                                                      *)
(***************************************************************************)
\* Grid.shape, Grid.valid_index: grid coordinates xi, yi as lattice numbers.
valid_index(nx, ny, xi, yi) ==
    xi >= 0 /\ xi <= (nx - 1) * Q /\ yi >= 0 /\ yi <= (ny - 1) * Q

\* DomainMap.__init__: x_grid2mask = float(mask.nx - 1) / grid.nx, and
\* x_mask2grid = 1. / x_grid2mask, as rationals.  The mask has at least two
\* cells per axis in every run of the model (with one, 1. / 0. raises).
x_grid2mask == Rat(inp.mnx - 1, inp.nx)
y_grid2mask == Rat(inp.mny - 1, inp.ny)
x_mask2grid == Rat(inp.nx, inp.mnx - 1)
y_mask2grid == Rat(inp.ny, inp.mny - 1)

\* int(c * r + 0.5) for a lattice number c and a rational r.
NearestCell(c, r) == Trunc(2 * c * r[1] + r[2] * Q, 2 * r[2] * Q)

\* DomainMap.grid2mask: <<xm, ym>>.
grid2mask(xi, yi) == <<NearestCell(xi, x_grid2mask), NearestCell(yi, y_grid2mask)>>

\* DomainMap.mask2grid: <<xg, yg>>, lattice numbers.
mask2grid(xm, ym) == <<RatScale(x_mask2grid, xm * Q), RatScale(y_mask2grid, ym * Q)>>

\* DomainMap.start_trajectory.
StartAt(ms, m) == _start_trajectory(ms, m[1], m[2])
start_trajectory(ms, xg, yg) == StartAt(ms, grid2mask(xg, yg))

\* DomainMap.reset_start_point.
ResetAt(ms, m) == reset_start_point_m(ms, m[1], m[2])
reset_start_point(ms, xg, yg) == ResetAt(ms, grid2mask(xg, yg))

\* DomainMap.update_trajectory.
UpdateAt(ms, m) == _update_trajectory(ms, m[1], m[2])
update_trajectory(ms, xg, yg) ==
    IF ~valid_index(inp.nx, inp.ny, xg, yg)
    THEN [ms |-> ms, err |-> "InvalidIndexError"]
    ELSE UpdateAt(ms, grid2mask(xg, yg))

\* DomainMap.undo_trajectory.
undo_trajectory(ms) == _undo_trajectory(ms)

(***************************************************************************)
(* _gen_starting_points                                                    *)
(***************************************************************************)
\* The generator's frame when it is created for a mask of shape (ny, nx).
GenStart(ny, nx) ==
    [nx |-> nx, ny |-> ny, x |-> 0, y |-> 0, xfirst |-> 0, yfirst |-> 1,
     xlast |-> nx - 1, ylast |-> ny - 1, direction |-> "right", i |-> 0]

\* The generator has another point to yield.
GenHasNext(g) == g.i < g.nx * g.ny

\* The point it yields next.
GenPoint(g) == <<g.x, g.y>>

\* GenAdvance as it would be with `x > xlast` for `x >= xlast` in the branch
\* of direction 'right'.
GenAdvanceLateTurn(g) ==
    LET c == [g EXCEPT !.i = g.i + 1] IN
    CASE g.direction = "right" ->
            IF g.x + 1 > g.xlast
            THEN [c EXCEPT !.x = g.x + 1, !.xlast = g.xlast - 1, !.direction = "up"]
            ELSE [c EXCEPT !.x = g.x + 1]
      [] g.direction = "up" ->
            IF g.y + 1 >= g.ylast
            THEN [c EXCEPT !.y = g.y + 1, !.ylast = g.ylast - 1, !.direction = "left"]
            ELSE [c EXCEPT !.y = g.y + 1]
      [] g.direction = "left" ->
            IF g.x - 1 <= g.xfirst
            THEN [c EXCEPT !.x = g.x - 1, !.xfirst = g.xfirst + 1, !.direction = "down"]
            ELSE [c EXCEPT !.x = g.x - 1]
      [] g.direction = "down" ->
            IF g.y - 1 <= g.yfirst
            THEN [c EXCEPT !.y = g.y - 1, !.yfirst = g.yfirst + 1, !.direction = "right"]
            ELSE [c EXCEPT !.y = g.y - 1]

\* The frame after the yield: the code between one yield and the next.
GenAdvance(g) ==
    LET c == [g EXCEPT !.i = g.i + 1] IN
    CASE g.direction = "right" ->
            IF g.x + 1 >= g.xlast
            THEN [c EXCEPT !.x = g.x + 1, !.xlast = g.xlast - 1, !.direction = "up"]
            ELSE [c EXCEPT !.x = g.x + 1]
      [] g.direction = "up" ->
            IF g.y + 1 >= g.ylast
            THEN [c EXCEPT !.y = g.y + 1, !.ylast = g.ylast - 1, !.direction = "left"]
            ELSE [c EXCEPT !.y = g.y + 1]
      [] g.direction = "left" ->
            IF g.x - 1 <= g.xfirst
            THEN [c EXCEPT !.x = g.x - 1, !.xfirst = g.xfirst + 1, !.direction = "down"]
            ELSE [c EXCEPT !.x = g.x - 1]
      [] g.direction = "down" ->
            IF g.y - 1 <= g.yfirst
            THEN [c EXCEPT !.y = g.y - 1, !.yfirst = g.yfirst + 1, !.direction = "right"]
            ELSE [c EXCEPT !.y = g.y - 1]

(***************************************************************************)
(* The velocity field and its sampling                                     *)
(*                                                                         *)
(* u and v are uniform arrays: u[y, x] = inp.u and v[y, x] = inp.v at      *)
(* every node, with <<inp.u, inp.v>> one of (0,0), (1,0), (-1,0), (0,1),   *)
(* (0,-1).  get_integrator rescales them to u * nx/width and v * ny/height *)
(* and builds speed = sqrt((u/width)^2 + (v/height)^2), so for these       *)
(* fields the value forward_time returns, u_i / speed_i, is sign(u) * nx   *)
(* in x and sign(v) * ny in y, and 0.0 where the component is zero.        *)
(***************************************************************************)
\* interpgrid's four array reads a[y, x], a[y, x+1], a[y+1, x], a[y+1, x+1]
\* with x = int(xi), y = int(yi) on an array of shape (ny, nx): TRUE when
\* none of them raises IndexError.
interpgrid_ok(nx, ny, xi, yi) ==
    LET x == Trunc(xi, Q)
        y == Trunc(yi, Q)
    IN  /\ IndexOk(y, ny) /\ IndexOk(x, nx)
        /\ IndexOk(x + 1, nx)
        /\ IndexOk(y + 1, ny)

\* u_i * dt_ds of forward_time for a uniform component c on an axis of n nodes.
Component(c, n) == IF c = 0 THEN Flt(1, 0) ELSE Flt(Sign(c), n)

\* get_integrator.forward_time: err is TRUE when interpgrid raised IndexError.
forward_time(xi, yi) ==
    IF ~interpgrid_ok(inp.nx, inp.ny, xi, yi)
    THEN [err |-> TRUE, x |-> Flt(1, 0), y |-> Flt(1, 0)]
    ELSE [err |-> FALSE, x |-> Component(inp.u, inp.nx), y |-> Component(inp.v, inp.ny)]

\* get_integrator.backward_time.
backward_time(xi, yi) ==
    LET d == forward_time(xi, yi) IN [err |-> d.err, x |-> Neg(d.x), y |-> Neg(d.y)]

\* The f handed to _integrate: forward_time or backward_time.
f(dir, xi, yi) == IF dir = "forward" THEN forward_time(xi, yi) ELSE backward_time(xi, yi)

(***************************************************************************)
(* The integrators.  A frame holds the locals of one _integrate call:      *)
(* xi, yi, ds, stotal, xf_traj, yf_traj.  Each *_iteration operator is one *)
(* pass through the body of the while loop, entered with valid_index true, *)
(* and gives the frame and the mask after it with a status: "next" (back   *)
(* to the loop test), "break" (the loop was left) or "IndexError" (the     *)
(* exception left _integrate).                                             *)
(***************************************************************************)
\* The runaway cap on stotal, 2, as a lattice number.
LengthCap == 2 * Q

\* min(1./mask.nx, 1./mask.ny, c) for a rational c (c <= 1 / mask.nx and
\* c <= 1 / mask.ny are decided exactly; the result is a lattice number).
StepSize(c) ==
    IF c[1] * inp.mnx <= c[2] /\ c[1] * inp.mny <= c[2]
    THEN RatScale(c, Q)
    ELSE Q \div (IF inp.mnx > inp.mny THEN inp.mnx ELSE inp.mny)

\* ds of _rk4 (0.01), maxds of _rk45 (0.03) and of _rk12 (0.1).
maxds(integrator) ==
    CASE integrator = "RK4"  -> StepSize(<<1, 100>>)
      [] integrator = "RK45" -> StepSize(<<3, 100>>)
      [] integrator = "RK12" -> StepSize(<<1, 10>>)

\* maxerror of _rk45 (0.001) and of _rk12 (0.003).
maxerror(integrator) ==
    IF integrator = "RK45" THEN <<1, 1000>> ELSE <<3, 1000>>

\* The locals of _integrate(x0, y0, dmap, f) before its loop.
NewFrame(integrator, x0, y0) ==
    [xi |-> x0, yi |-> y0, ds |-> maxds(integrator), stotal |-> 0,
     xf_traj |-> <<>>, yf_traj |-> <<>>]

\* xf_traj.append(xi); yf_traj.append(yi).
SavePoint(fr) ==
    [fr EXCEPT !.xf_traj = Append(fr.xf_traj, fr.xi),
               !.yf_traj = Append(fr.yf_traj, fr.yi)]

\* The loop was left with the frame fr.
Break(fr, ms) == [it |-> fr, ms |-> ms, status |-> "break"]

\* The tail shared by the three loops once the new position is in fr and
\* update_trajectory has given u: the except clause, the test against the
\* cap, stotal += ds.
AfterUpdate(fr, u) ==
    IF u.err # "none" THEN Break(fr, u.ms)
    ELSE IF fr.stotal + fr.ds > LengthCap THEN Break(fr, u.ms)
    ELSE [it |-> [fr EXCEPT !.stotal = fr.stotal + fr.ds], ms |-> u.ms,
          status |-> "next"]

CommitStep(fr, ms) == AfterUpdate(fr, update_trajectory(ms, fr.xi, fr.yi))

\* The frame moved by (dx, dy).
Moved(fr, dx, dy) == [fr EXCEPT !.xi = fr.xi + dx, !.yi = fr.yi + dy]

\* _rk4, lines 475-497: the four stages in order, each leaving the loop
\* when f raises IndexError, then the step.
rk4_step(fr, ms, k1, k2, k3, k4) ==
    IF k4.err THEN Break(fr, ms)
    ELSE CommitStep(
            Moved(fr,
                  (fr.ds * (Val(k1.x) + 2 * Val(k2.x) + 2 * Val(k3.x) + Val(k4.x))) \div 6,
                  (fr.ds * (Val(k1.y) + 2 * Val(k2.y) + 2 * Val(k3.y) + Val(k4.y))) \div 6),
            ms)

rk4_k4(fr, ms, dir, k1, k2, k3) ==
    IF k3.err THEN Break(fr, ms)
    ELSE rk4_step(fr, ms, k1, k2, k3,
                  f(dir, fr.xi + fr.ds * Val(k3.x), fr.yi + fr.ds * Val(k3.y)))

rk4_k3(fr, ms, dir, k1, k2) ==
    IF k2.err THEN Break(fr, ms)
    ELSE rk4_k4(fr, ms, dir, k1, k2,
                f(dir, fr.xi + (fr.ds * Val(k2.x)) \div 2,
                       fr.yi + (fr.ds * Val(k2.y)) \div 2))

rk4_k2(fr, ms, dir, k1) ==
    IF k1.err THEN Break(fr, ms)
    ELSE rk4_k3(fr, ms, dir, k1,
                f(dir, fr.xi + (fr.ds * Val(k1.x)) \div 2,
                       fr.yi + (fr.ds * Val(k1.y)) \div 2))

rk4_k1(fr, ms, dir) == rk4_k2(fr, ms, dir, f(dir, fr.xi, fr.yi))

rk4_iteration(fr0, ms, dir) == rk4_k1(SavePoint(fr0), ms, dir)

\* dot(seq1, seq2): the sum of the products, as far as the shorter sequence
\* goes.  seq1 holds rationals, seq2 whole numbers; the sum is a rational.
RECURSIVE dot(_, _)
dot(seq1, seq2) ==
    IF seq1 = <<>> \/ seq2 = <<>> THEN <<0, 1>>
    ELSE RatAdd(RatMulInt(Head(seq1), Head(seq2)), dot(Tail(seq1), Tail(seq2)))

\* The Runge-Kutta-Fehlberg coefficients of _rk45, lines 514-521.
a2 == <<1, 4>>
a3 == << <<3, 32>>, <<9, 32>> >>
a4 == << <<1932, 2197>>, <<-7200, 2197>>, <<7296, 2197>> >>
a5 == << <<439, 216>>, <<-8, 1>>, <<3680, 513>>, <<-845, 4104>> >>
a6 == << <<-8, 27>>, <<2, 1>>, <<-3544, 2565>>, <<1859, 4104>>, <<-11, 40>> >>
b4 == << <<25, 216>>, <<1408, 2565>>, <<2197, 4104>>, <<-1, 5>> >>
b5 == << <<16, 135>>, <<6656, 12825>>, <<28561, 56430>>, <<-9, 50>>, <<2, 55>> >>

\* The coefficients of stage n + 1, for n = 1 .. 5: a2 (a scalar in the
\* source) to a6.
StageRow(n) ==
    CASE n = 1 -> <<a2>> [] n = 2 -> a3 [] n = 3 -> a4 [] n = 4 -> a5 [] n = 5 -> a6

\* The x and the y components of the stages ks, as whole numbers.
RECURSIVE Xs(_)
Xs(ks) == IF ks = <<>> THEN <<>> ELSE <<Val(Head(ks).x)>> \o Xs(Tail(ks))
RECURSIVE Ys(_)
Ys(ks) == IF ks = <<>> THEN <<>> ELSE <<Val(Head(ks).y)>> \o Ys(Tail(ks))

\* error < maxerror, for error = sqrt((ex/nx)**2 + (ey/ny)**2): both sides
\* squared and cleared of denominators.
ErrorBelowBound(px, py, b) == px < b /\ py < b /\ px * px + py * py < b * b

ErrorBelowScaled(ex, ey, nx, ny, r) ==
    ErrorBelowBound(Abs(ex) * ny * r[2], Abs(ey) * nx * r[2], r[1] * nx * ny)

ErrorBelow(ex, ey, nx, ny, tol) ==
    ErrorBelowScaled(ex, ey, nx, ny, Rat(tol[1] * Q, tol[2]))

\* Whole numbers too long for a machine word, for the powers of the step
\* size rule: base-1000 digits, least significant first, no leading zero.
\* n * k + carry for a long n and whole numbers k > 0 and carry.
RECURSIVE BigTimes(_, _, _)
BigTimes(n, k, carry) ==
    IF n = <<>>
    THEN IF carry = 0 THEN <<>> ELSE <<carry % 1000>> \o BigTimes(<<>>, k, carry \div 1000)
    ELSE <<(Head(n) * k + carry) % 1000>>
         \o BigTimes(Tail(n), k, (Head(n) * k + carry) \div 1000)

Big(k) == BigTimes(<<>>, 1, k)
BigMul(n, k) == IF k = 0 THEN <<>> ELSE BigTimes(n, k, 0)

\* n * k^e.
RECURSIVE BigPower(_, _, _)
BigPower(n, k, e) == IF e = 0 THEN n ELSE BigPower(BigMul(n, k), k, e - 1)

RECURSIVE BigPlus(_, _, _)
BigPlus(a, b, carry) ==
    IF a = <<>> /\ b = <<>> THEN (IF carry = 0 THEN <<>> ELSE <<carry>>)
    ELSE LET d == (IF a = <<>> THEN 0 ELSE Head(a)) + (IF b = <<>> THEN 0 ELSE Head(b)) + carry
         IN  <<d % 1000>> \o BigPlus(IF a = <<>> THEN a ELSE Tail(a),
                                     IF b = <<>> THEN b ELSE Tail(b), d \div 1000)

RECURSIVE BigLeq(_, _)
BigLeq(a, b) ==
    IF Len(a) # Len(b) THEN Len(a) < Len(b)
    ELSE IF a = <<>> THEN TRUE
    ELSE IF a[Len(a)] # b[Len(b)] THEN a[Len(a)] < b[Len(b)]
    ELSE BigLeq(SubSeq(a, 1, Len(a) - 1), SubSeq(b, 1, Len(b) - 1))

\* error**2 of `error = np.sqrt(((dx2-dx1)/nx)**2 + ((dy2-dy1)/ny)**2)`
\* times (nx * ny * Q)**2, for the lattice numbers ex = dx2 - dx1 and
\* ey = dy2 - dy1.
ErrorSquared(ex, ey, nx, ny) ==
    BigPlus(BigMul(BigMul(BigMul(Big(Abs(ex)), Abs(ex)), ny), ny),
            BigMul(BigMul(BigMul(Big(Abs(ey)), Abs(ey)), nx), nx), 0)

\* r <= 0.85 * ds * (maxerror/error)**0.2 for a lattice number r and
\* maxerror = tol[1] / tol[2]: both sides raised to the tenth power and
\* cleared of denominators (0.85 = 17/20),
\*     (20 r)^10 * tol[2]^2 * error^2 <= (17 ds)^10 * tol[1]^2.
StepFits(r, ds, e2, nx, ny, tol) ==
    BigLeq(BigPower(BigMul(BigMul(e2, tol[2]), tol[2]), 20 * r, 10),
           BigPower(BigMul(BigMul(Big(tol[1] * tol[1] * nx * nx * ny * ny), Q), Q),
                    17 * ds, 10))

\* The largest lattice number r in lo .. hi - 1 with StepFits(r, ...), given
\* that lo fits and hi does not.
RECURSIVE LargestFit(_, _, _, _, _, _, _)
LargestFit(lo, hi, ds, e2, nx, ny, tol) ==
    IF hi - lo <= 1 THEN lo
    ELSE IF StepFits((lo + hi) \div 2, ds, e2, nx, ny, tol)
         THEN LargestFit((lo + hi) \div 2, hi, ds, e2, nx, ny, tol)
         ELSE LargestFit(lo, (lo + hi) \div 2, ds, e2, nx, ny, tol)

\* ds = min(maxds, 0.85 * ds * (maxerror/error)**0.2), for the error of the
\* lattice numbers ex and ey on a grid whose shape the source unpacked as
\* (nx, ny).  With error = 0 the quotient is inf and the result maxds: that
\* is the branch every step of a uniform field takes, in both adaptive
\* integrators.  For error > 0 the result is the product cut to the lattice.
NextStepSize(integrator, ds, ex, ey, nx, ny) ==
    IF ex = 0 /\ ey = 0 THEN maxds(integrator)
    ELSE IF StepFits(maxds(integrator), ds, ErrorSquared(ex, ey, nx, ny), nx, ny,
                     maxerror(integrator))
    THEN maxds(integrator)
    ELSE LargestFit(0, maxds(integrator), ds, ErrorSquared(ex, ey, nx, ny), nx, ny,
                    maxerror(integrator))

\* The end of the body of the two adaptive loops, from `nx, ny =
\* dmap.grid.shape` on, for the low and high order updates (dxl, dyl) and
\* (dxh, dyh).  Grid.shape is (ny, nx), so the source's nx is the number of
\* rows and its ny the number of columns.  A break skips the new ds.
WithStepSize(c, nds) == IF c.status = "break" THEN c ELSE [c EXCEPT !.it.ds = nds]

adaptive_step(integrator, fr, ms, dxl, dyl, dxh, dyh) ==
    IF ErrorBelow(dxh - dxl, dyh - dyl, inp.ny, inp.nx, maxerror(integrator))
    THEN WithStepSize(CommitStep(Moved(fr, dxh, dyh), ms),
                      NextStepSize(integrator, fr.ds, dxh - dxl, dyh - dyl, inp.ny, inp.nx))
    ELSE [it |-> [fr EXCEPT !.ds = NextStepSize(integrator, fr.ds, dxh - dxl, dyh - dyl,
                                                inp.ny, inp.nx)],
          ms |-> ms, status |-> "next"]

\* _rk45, lines 524-565.  ks holds the stages computed so far, k1 first.
rk45_step(fr, ms, kx, ky) ==
    adaptive_step("RK45", fr, ms,
        RatScale(dot(b4, <<kx[1], kx[3], kx[4], kx[5]>>), fr.ds),
        RatScale(dot(b4, <<ky[1], ky[3], ky[4], ky[5]>>), fr.ds),
        RatScale(dot(b5, <<kx[1], kx[3], kx[4], kx[5], kx[6]>>), fr.ds),
        RatScale(dot(b5, <<ky[1], ky[3], ky[4], ky[5], ky[6]>>), fr.ds))

RECURSIVE rk45_stages(_, _, _, _)
rk45_stages(fr, ms, dir, ks) ==
    IF ks[Len(ks)].err THEN Break(fr, ms)
    ELSE IF Len(ks) = 6 THEN rk45_step(fr, ms, Xs(ks), Ys(ks))
    ELSE rk45_stages(fr, ms, dir,
            Append(ks, f(dir,
                         fr.xi + RatScale(dot(StageRow(Len(ks)), Xs(ks)), fr.ds),
                         fr.yi + RatScale(dot(StageRow(Len(ks)), Ys(ks)), fr.ds))))

rk45_k1(fr, ms, dir) == rk45_stages(fr, ms, dir, <<f(dir, fr.xi, fr.yi)>>)

rk45_iteration(fr0, ms, dir) == rk45_k1(SavePoint(fr0), ms, dir)

\* a / k for a finite lattice number a and a float k that may be a signed
\* zero (numpy scalars: x / 0.0 is an infinity or nan, no exception).
FltDiv(a, k) ==
    IF k.m = 0
    THEN IF a = 0 THEN NaN ELSE IF Sign(a) * k.s > 0 THEN PosInf ELSE NegInf
    ELSE a \div Val(k)

\* k * e for a float k and a length e that may be an infinity or nan.
FltMul(k, e) ==
    IF e = NaN THEN NaN
    ELSE IF IsFin(e) THEN Val(k) * e
    ELSE IF k.m = 0 THEN NaN
    ELSE IF k.s * Sign(e) > 0 THEN PosInf ELSE NegInf

\* _euler_step, lines 451-462, for the direction c = f(xi, yi) at the last
\* point (xi, yi): dsx or dsy along one axis of n points.
euler_ds(n, p, c) ==
    IF Val(c) > 0 THEN FltDiv((n - 1) * Q - p, c) ELSE FltDiv(p, Neg(c))

euler_result(xf_traj, yf_traj, xi, yi, c, ds) ==
    [err |-> FALSE, ds |-> ds,
     xf_traj |-> Append(xf_traj, ExtAdd(xi, FltMul(c.x, ds))),
     yf_traj |-> Append(yf_traj, ExtAdd(yi, FltMul(c.y, ds)))]

euler_from(xf_traj, yf_traj, xi, yi, c) ==
    IF c.err
    THEN [err |-> TRUE, ds |-> 0, xf_traj |-> xf_traj, yf_traj |-> yf_traj]
    ELSE euler_result(xf_traj, yf_traj, xi, yi, c,
                      PyMin(euler_ds(inp.ny, xi, c.x), euler_ds(inp.nx, yi, c.y)))

euler_at(xf_traj, yf_traj, dir, xi, yi) ==
    euler_from(xf_traj, yf_traj, xi, yi, f(dir, xi, yi))

\* _euler_step: err is TRUE when f raised IndexError; otherwise ds and the
\* two lists with the new end point.  `nx, ny = dmap.grid.shape` binds nx to
\* the number of rows and ny to the number of columns.
_euler_step(xf_traj, yf_traj, dir) ==
    euler_at(xf_traj, yf_traj, dir, xf_traj[Len(xf_traj)], yf_traj[Len(yf_traj)])

\* _rk12, lines 411-416: the except clause, with e what _euler_step gave.
rk12_except(fr, ms, e) ==
    IF e.err
    THEN [it |-> fr, ms |-> ms, status |-> "IndexError"]
    ELSE Break([fr EXCEPT !.ds = e.ds,
                          !.stotal = ExtAdd(fr.stotal, e.ds),
                          !.xf_traj = e.xf_traj,
                          !.yf_traj = e.yf_traj], ms)

\* _rk12, lines 418-440.
rk12_step(fr, ms, dir, k1, k2) ==
    IF k2.err THEN rk12_except(fr, ms, _euler_step(fr.xf_traj, fr.yf_traj, dir))
    ELSE adaptive_step("RK12", fr, ms,
            fr.ds * Val(k1.x), fr.ds * Val(k1.y),
            (fr.ds * (Val(k1.x) + Val(k2.x))) \div 2,
            (fr.ds * (Val(k1.y) + Val(k2.y))) \div 2)

\* _rk12, lines 407-410.
rk12_k2(fr, ms, dir, k1) ==
    IF k1.err THEN rk12_except(fr, ms, _euler_step(fr.xf_traj, fr.yf_traj, dir))
    ELSE rk12_step(fr, ms, dir, k1,
                   f(dir, fr.xi + fr.ds * Val(k1.x), fr.yi + fr.ds * Val(k1.y)))

rk12_k1(fr, ms, dir) == rk12_k2(fr, ms, dir, f(dir, fr.xi, fr.yi))

rk12_iteration(fr0, ms, dir) == rk12_k1(SavePoint(fr0), ms, dir)

\* One pass through the loop body of the integrator streamplot was given.
integrate_iteration(fr, ms, dir) ==
    CASE inp.integrator = "RK4"  -> rk4_iteration(fr, ms, dir)
      [] inp.integrator = "RK45" -> rk45_iteration(fr, ms, dir)
      [] inp.integrator = "RK12" -> rk12_iteration(fr, ms, dir)

(***************************************************************************)
(* SpecStream: one call of streamplot, from the seed loop of lines 91-97   *)
(* on.  Init is the state after lines 71-89 for each input of the model.   *)
(***************************************************************************)
Fields == {<<0, 0>>, <<1, 0>>, <<-1, 0>>, <<0, 1>>, <<0, -1>>}
Integrators == {"RK4", "RK45", "RK12"}
\* minlength: 0, the default 0.1, and 0.5.
MinLengths == {0, Q \div 10, Q \div 2}

\* The positions and the accumulated lengths of the model are exact sums,
\* those of the source are float sums, and the two runs take the same
\* branches as long as no comparison is decided by the rounding.
\*   - In a zero field the trajectory runs into the cap of 2, and the
\*     rounding decides the pass at which stotal + ds > 2 first holds: with
\*     ds = 0.03 (RK45) the float sums and the exact sums cross the cap at the
\*     same pass, with ds = 0.01 (RK4) and ds = 0.1 (RK12) they do not.  The
\*     zero field is therefore run with RK45.
\*   - With RK12 the step along an axis of n nodes is the float product
\*     0.1 * 0.5 * 2n, and a trajectory that meets the edge of the grid or
\*     the border of a mask cell exactly in the model may miss it by an ulp in
\*     the source: from the seed 1.5 on an axis of 3 nodes the fifth step
\*     back gives 0 in the model and -2.2e-16, outside the grid, in the
\*     source.  RK12 is therefore run with the grid sides and mask sides
\*     along the flow for which the float run takes the branches of the
\*     exact run.
AlongFlow(r) == IF r.u # 0 THEN <<r.nx, r.mnx>> ELSE <<r.ny, r.mny>>

RK12Sides == {<<2, 2>>, <<2, 3>>, <<3, 2>>, <<3, 4>>, <<4, 2>>}

Exact(r) ==
    /\ (r.u = 0 /\ r.v = 0) => r.integrator = "RK45"
    /\ r.integrator = "RK12" => AlongFlow(r) \in RK12Sides

Inputs ==
    {r \in [nx : 2 .. MaxGrid, ny : 2 .. MaxGrid,
            mnx : 2 .. MaxMask, mny : 2 .. MaxMask,
            u : {uv[1] : uv \in Fields}, v : {uv[2] : uv \in Fields},
            integrator : Integrators, minlength : MinLengths] :
        <<r.u, r.v>> \in Fields /\ Exact(r)}

\* The variables of the other runs, unused.
NoGen == yielded = <<>>
NoGrid == args = None /\ grid = None /\ probe = None
NoArt == col = None /\ drawn = None

NoFrame == [xi |-> 0, yi |-> 0, ds |-> 0, stotal |-> 0, xf_traj |-> <<>>, yf_traj |-> <<>>]
NoPass == [s |-> 0, x_traj |-> <<>>, y_traj |-> <<>>]
NoResult == [ret |-> "unset", sf |-> 0, sb |-> 0, stotal |-> 0,
             x_traj |-> <<>>, y_traj |-> <<>>]

InitStream ==
    /\ inp \in Inputs
    /\ _mask = NewMask(inp.mny, inp.mnx)
    /\ _traj = <<>>
    /\ _current_xy = None
    /\ gen = GenStart(inp.mny, inp.mnx)
    /\ pc = "seeds"
    /\ seed = None
    /\ it = NoFrame
    /\ fwd = NoPass
    /\ trajectories = <<>>
    /\ result = NoResult
    /\ exc = "none"
    /\ maskAtStart = _mask
    /\ owner = None
    /\ trajId = 0
    /\ last = None
    /\ NoGen
    /\ NoArt
    /\ NoGrid

\* mask[ym, xm] of line 93: numpy indexing, IndexError outside the array.
MaskIndexOk(ym, xm) == IndexOk(ym, inp.mny) /\ IndexOk(xm, inp.mnx)
MaskAt(ym, xm) == _mask[<<ym % inp.mny, xm % inp.mnx>>]

\* The StreamMask of the next state is m.
SetMask(m) ==
    /\ _mask' = m.mask
    /\ _traj' = m.traj
    /\ _current_xy' = m.cur

\* Lines 94-95 and 343-344 for the grid point g, where start_trajectory gave
\* r: the forward _integrate call is at its first loop test, unless
\* start_trajectory raised.
StartSeed(g, r) ==
    /\ maskAtStart' = _mask
    /\ seed' = g
    /\ SetMask(r.ms)
    /\ IF r.err # "none"
       THEN /\ pc' = "raised"
            /\ exc' = r.err
            /\ UNCHANGED it
       ELSE /\ pc' = "forward"
            /\ exc' = "none"
            /\ it' = NewFrame(inp.integrator, g[1], g[2])

\* Line 93 for the starting point (xm, ym).
TrySeed(xm, ym) ==
    IF ~MaskIndexOk(ym, xm)
    THEN /\ pc' = "raised"
         /\ exc' = "IndexError"
         /\ UNCHANGED <<_mask, _traj, _current_xy, seed, it, maskAtStart>>
    ELSE IF MaskAt(ym, xm) # 0
    THEN UNCHANGED <<pc, exc, _mask, _traj, _current_xy, seed, it, maskAtStart>>
    ELSE StartSeed(mask2grid(xm, ym), start_trajectory(Here, mask2grid(xm, ym)[1],
                                                       mask2grid(xm, ym)[2]))

\* Lines 92-95 up to the first loop test of the forward _integrate call:
\* the next starting point; on a free cell, mask2grid and start_trajectory.
NextSeed ==
    /\ pc = "seeds"
    /\ GenHasNext(gen)
    /\ gen' = GenAdvance(gen)
    /\ TrySeed(GenPoint(gen)[1], GenPoint(gen)[2])
    /\ UNCHANGED <<artVars, inp, fwd, trajectories, result, maskHistory, genHistory, gridVars>>

\* The generator is exhausted: the loop of line 92 ends.
SeedsDone ==
    /\ pc = "seeds"
    /\ ~GenHasNext(gen)
    /\ pc' = "done"
    /\ UNCHANGED <<artVars, inp, _mask, _traj, _current_xy, gen, seed, it, fwd, trajectories,
                   result, exc, maskAtStart, maskHistory, genHistory, gridVars>>

RECURSIVE Reverse(_)
Reverse(q) == IF q = <<>> THEN <<>> ELSE Append(Reverse(Tail(q)), Head(q))

\* q[1:] of Python.
DropFirst(q) == IF q = <<>> THEN <<>> ELSE Tail(q)

\* The forward _integrate call returned fr (line 344): line 345 and the
\* start of the backward call (line 346).
EndForward(fr, ms) ==
    /\ fwd' = [s |-> fr.stotal, x_traj |-> fr.xf_traj, y_traj |-> fr.yf_traj]
    /\ SetMask(reset_start_point(ms, seed[1], seed[2]))
    /\ it' = NewFrame(inp.integrator, seed[1], seed[2])
    /\ pc' = "backward"
    /\ UNCHANGED <<trajectories, result>>

\* stotal > minlength of line 352.
LongEnough(stotal, minlength) == ExtGreater(stotal, minlength)

\* Lines 352-356 and 96-97 for the combined trajectory.
Return(ms, sf, sb, stotal, x_traj, y_traj, keep) ==
    /\ result' = [ret |-> IF keep THEN "trajectory" ELSE "None",
                  sf |-> sf, sb |-> sb, stotal |-> stotal,
                  x_traj |-> x_traj, y_traj |-> y_traj]
    /\ trajectories' = IF keep THEN Append(trajectories, <<x_traj, y_traj>>)
                               ELSE trajectories
    /\ SetMask(IF keep THEN ms ELSE undo_trajectory(ms))
    /\ it' = NoFrame
    /\ pc' = "seeds"
    /\ UNCHANGED fwd

\* Lines 348-350.
Combine(ms, sf, xf_traj, yf_traj, sb, xb_traj, yb_traj) ==
    Return(ms, sf, sb, ExtAdd(sf, sb),
           Reverse(xb_traj) \o DropFirst(xf_traj),
           Reverse(yb_traj) \o DropFirst(yf_traj),
           LongEnough(ExtAdd(sf, sb), inp.minlength))

\* The backward _integrate call returned fr (line 346): lines 348-356 and
\* lines 96-97 of streamplot.
EndBackward(fr, ms) ==
    Combine(ms, fwd.s, fwd.x_traj, fwd.y_traj, fr.stotal, fr.xf_traj, fr.yf_traj)

\* An _integrate call returned.
EndPass(dir, fr, ms) ==
    IF dir = "forward" THEN EndForward(fr, ms) ELSE EndBackward(fr, ms)

\* The state after a pass r through the loop body.
AfterIteration(dir, r) ==
    CASE r.status = "next" ->
            /\ it' = r.it
            /\ SetMask(r.ms)
            /\ UNCHANGED <<pc, fwd, trajectories, result, exc>>
      [] r.status = "break" -> EndPass(dir, r.it, r.ms) /\ UNCHANGED exc
      [] r.status = "IndexError" ->
            /\ pc' = "raised"
            /\ exc' = "IndexError"
            /\ it' = r.it
            /\ UNCHANGED <<_mask, _traj, _current_xy, fwd, trajectories, result>>

\* One loop test of the running _integrate call, and the loop body when the
\* test passes; when the loop ends, the code up to the next loop test.
Step(dir) ==
    /\ pc = dir
    /\ IF ~valid_index(inp.nx, inp.ny, it.xi, it.yi)
       THEN EndPass(dir, it, Here) /\ UNCHANGED exc
       ELSE AfterIteration(dir, integrate_iteration(it, Here, dir))
    /\ UNCHANGED <<artVars, inp, gen, seed, maskAtStart, maskHistory, genHistory, gridVars>>

StepForward == Step("forward")
StepBackward == Step("backward")

NextStream ==
    \/ NextSeed
    \/ SeedsDone
    \/ StepForward
    \/ StepBackward

SpecStream == InitStream /\ [][NextStream]_vars

(***************************************************************************)
(* Claims about streamplot runs (SpecStream).                              *)
(***************************************************************************)
\* streamplot is between two seeds, or past the last one.
BetweenSeeds == pc \in {"seeds", "done"}

\* The mask cells that the sample points of the kept trajectory t fall in
\* (grid2mask of each point with finite coordinates).
CellsOf(t) ==
    {grid2mask(t[1][k], t[2][k]) :
        k \in {j \in 1 .. Len(t[1]) : IsFin(t[1][j]) /\ IsFin(t[2][j])}}

\* C2: between seeds, every mask cell that a sample point of a kept
\* trajectory falls in is marked occupied, and no mask cell holds sample
\* points of two different kept trajectories.
C2_KeptCellsMarkedAndDisjoint ==
    BetweenSeeds =>
        /\ \A i \in 1 .. Len(trajectories) :
              \A c \in CellsOf(trajectories[i]) :
                  MaskIndexOk(c[2], c[1]) /\ MaskAt(c[2], c[1]) = 1
        /\ \A i, j \in 1 .. Len(trajectories) :
              i # j => CellsOf(trajectories[i]) \cap CellsOf(trajectories[j]) = {}


\* rk4_integrate has returned at least once.
Returned == result.ret # "unset"

\* C3: a trajectory is discarded exactly when its total length, forward
\* plus backward, is strictly less than minlength; with a total length equal
\* to or greater than minlength it is kept.
C3_DiscardedIffShorter ==
    Returned => (result.ret = "None" <=> ExtLess(result.stotal, inp.minlength))

\* C4: when a trajectory has been discarded, the mask equals the mask as it
\* was immediately before that trajectory's start_trajectory, so that every
\* cell marked by an earlier kept trajectory is still occupied.
C4_UndoRestoresMask ==
    (BetweenSeeds /\ result.ret = "None") =>
        /\ _mask = maskAtStart
        /\ \A i \in 1 .. Len(trajectories) :
              \A c \in CellsOf(trajectories[i]) :
                  MaskIndexOk(c[2], c[1]) /\ maskAtStart[<<c[2], c[1]>>] = 1
                      => MaskAt(c[2], c[1]) = 1

\* A trajectory that had marked two cells or more was discarded after an
\* earlier trajectory was kept.
C4_Witness ==
    /\ BetweenSeeds
    /\ result.ret = "None"
    /\ Len(_traj) >= 2
    /\ Len(trajectories) >= 1
    /\ \E c \in DOMAIN _mask : _mask[c] = 1

\* C5: no IndexError and no InvalidIndexError raised while integrating
\* leaves the integrate call: streamplot never ends with an exception.
C5_NoExceptionPropagates == exc = "none"

\* streamplot has come to rest: no step of the seed loop is left to take.
AtRest == pc \notin {"seeds", "forward", "backward"}

\* C6: the cumulative length an integration reports never exceeds 2, and
\* streamplot comes to rest only when its seed loop has finished, every mask
\* cell tried.
C6_LengthCappedAndSeedLoopFinishes ==
    /\ ~ExtGreater(it.stotal, LengthCap)
    /\ ~ExtGreater(fwd.s, LengthCap)
    /\ ~ExtGreater(result.sf, LengthCap) /\ ~ExtGreater(result.sb, LengthCap)
    /\ AtRest => pc = "done" /\ ~GenHasNext(gen)

\* C8: in a uniform zero field every trajectory has total length 0 and is
\* discarded.
C8_ZeroFieldDiscarded ==
    (inp.u = 0 /\ inp.v = 0 /\ Returned) =>
        result.stotal = 0 /\ result.ret = "None"

\* The second sample of the step a forward pass of an adaptive integrator is
\* about to take: at ds * k1 for RK12, at ds * a2 * k1 for RK45.
SecondSampleAt(k1) ==
    IF inp.integrator = "RK12"
    THEN f("forward", it.xi + it.ds * Val(k1.x), it.yi + it.ds * Val(k1.y))
    ELSE f("forward", it.xi + RatScale(dot(StageRow(1), Xs(<<k1>>)), it.ds),
                      it.yi + RatScale(dot(StageRow(1), Ys(<<k1>>)), it.ds))

\* The forward pass of an adaptive integrator stands at a valid point where
\* the velocity can be sampled, and the second sample of its next step
\* leaves the grid.
LeavesGridMidStep ==
    /\ pc = "forward"
    /\ inp.integrator \in {"RK45", "RK12"}
    /\ valid_index(inp.nx, inp.ny, it.xi, it.yi)
    /\ ~f("forward", it.xi, it.yi).err
    /\ SecondSampleAt(f("forward", it.xi, it.yi)).err

\* The point lies on the boundary of the grid.
OnGridBoundary(x, y) ==
    /\ valid_index(inp.nx, inp.ny, x, y)
    /\ x \in {0, (inp.nx - 1) * Q} \/ y \in {0, (inp.ny - 1) * Q}

\* The forward pass returned its trajectory extended, beyond the point it
\* stood at, by one more point that lies on the grid boundary, and with a
\* greater length unless that point is the one it stood at.
ExtendedToBoundary ==
    /\ pc' = "backward"
    /\ Len(fwd'.x_traj) = Len(it.xf_traj) + 2
    /\ fwd'.x_traj[Len(it.xf_traj) + 1] = it.xi
    /\ fwd'.y_traj[Len(it.xf_traj) + 1] = it.yi
    /\ OnGridBoundary(fwd'.x_traj[Len(it.xf_traj) + 2], fwd'.y_traj[Len(it.xf_traj) + 2])
    /\ (fwd'.x_traj[Len(it.xf_traj) + 2] # it.xi \/ fwd'.y_traj[Len(it.xf_traj) + 2] # it.yi)
           => ExtGreater(fwd'.s, it.stotal)

\* C20: in RK45 and in RK12, when an intermediate sample of a step leaves
\* the grid, the trajectory is extended by exactly one Euler step that ends
\* on the grid boundary, and the step's length is added to the cumulative
\* length.  Stated for the forward pass and the second sample.
C20_EulerStepToBoundary ==
    [][LeavesGridMidStep => ExtendedToBoundary]_vars

\* Every sample of the trajectory (xs, ys) is a valid index of the grid.
SamplesValid(xs, ys) ==
    \A k \in 1 .. Len(xs) : valid_index(inp.nx, inp.ny, xs[k], ys[k])

\* C27: every sample point an integrator stores in a trajectory, the end
\* point added by the Euler fallback included, satisfies Grid.valid_index:
\* in the running pass, in what the forward pass returned, in what
\* rk4_integrate returned and in the trajectories streamplot keeps.
C27_SamplesInsideGrid ==
    /\ SamplesValid(it.xf_traj, it.yf_traj)
    /\ SamplesValid(fwd.x_traj, fwd.y_traj)
    /\ SamplesValid(result.x_traj, result.y_traj)
    /\ \A i \in 1 .. Len(trajectories) :
          SamplesValid(trajectories[i][1], trajectories[i][2])

\* The seed loop is about to offer the generator's next point as a seed: it
\* is a free cell of the mask (lines 92-93).
SeedOffered ==
    /\ pc = "seeds"
    /\ GenHasNext(gen)
    /\ MaskIndexOk(GenPoint(gen)[2], GenPoint(gen)[1])
    /\ MaskAt(GenPoint(gen)[2], GenPoint(gen)[1]) = 0

\* The grid point of line 94 for the generator's next point.
SeedPoint == mask2grid(GenPoint(gen)[1], GenPoint(gen)[2])

\* C26: for every mask cell (xm, ym) offered as a seed, the grid point
\* mask2grid(xm, ym) satisfies Grid.valid_index, and grid2mask takes it back
\* to (xm, ym), the cell start_trajectory marks.
C26_SeedInsideGridRoundTrips ==
    SeedOffered =>
        /\ valid_index(inp.nx, inp.ny, SeedPoint[1], SeedPoint[2])
        /\ grid2mask(SeedPoint[1], SeedPoint[2]) = GenPoint(gen)

\* The backward pass returns in this step: rk4_integrate combines the two
\* passes and returns.
BackwardReturns == pc = "backward" /\ pc' = "seeds"

\* The frame of the backward _integrate call when it returns: the frame as
\* it stands when the loop test fails, else the frame the last pass through
\* the loop body leaves.
BackwardFrame ==
    IF ~valid_index(inp.nx, inp.ny, it.xi, it.yi)
    THEN it
    ELSE integrate_iteration(it, Here, "backward").it

\* The positions of the trajectory (xs, ys) that hold the point p.
PositionsOf(xs, ys, p) == {k \in 1 .. Len(xs) : xs[k] = p[1] /\ ys[k] = p[2]}

\* The samples (xs, ys) never move against the uniform field (u, v).
InFlowOrder(xs, ys, u, v) ==
    \A k \in 1 .. Len(xs) - 1 :
        /\ IsFin(xs[k]) /\ IsFin(xs[k + 1]) /\ IsFin(ys[k]) /\ IsFin(ys[k + 1])
        /\ (xs[k + 1] - xs[k]) * u >= 0
        /\ (ys[k + 1] - ys[k]) * v >= 0
        /\ u = 0 => xs[k + 1] = xs[k]
        /\ v = 0 => ys[k + 1] = ys[k]

\* What rk4_integrate returns when both passes, each with at least one
\* sample, are combined.
CombinedInOrder(xb, yb) ==
    /\ result'.x_traj = Reverse(xb) \o Tail(fwd.x_traj)
    /\ result'.y_traj = Reverse(yb) \o Tail(fwd.y_traj)
    /\ Len(result'.x_traj) = Len(xb) + Len(fwd.x_traj) - 1
    /\ Len(result'.y_traj) = Len(yb) + Len(fwd.y_traj) - 1
    /\ PositionsOf(result'.x_traj, result'.y_traj, seed) = {Len(xb)}
    /\ InFlowOrder(result'.x_traj, result'.y_traj, inp.u, inp.v)

\* C21: the combined trajectory is the backward samples in reverse order
\* followed by the forward samples without their first element; when both
\* passes produced at least one sample, the sample count is
\* len(backward) + len(forward) - 1, the seed point appears exactly once and
\* the samples are in flow order; the total length is the sum of the lengths
\* of the two passes.
C21_CombinedBackwardThenForward ==
    [][BackwardReturns =>
          /\ result'.sf = fwd.s
          /\ result'.sb = BackwardFrame.stotal
          /\ result'.stotal = ExtAdd(fwd.s, BackwardFrame.stotal)
          /\ (Len(BackwardFrame.xf_traj) >= 1 /\ Len(fwd.x_traj) >= 1)
                 => CombinedInOrder(BackwardFrame.xf_traj, BackwardFrame.yf_traj)]_vars

(***************************************************************************)
(* SpecMask: the StreamMask protocol driven by an arbitrary caller.        *)
(***************************************************************************)
ApiCells == Cells(ApiSide, ApiSide)

\* The cell is held by a trajectory other than `id`.
HeldByOther(c, id) == owner[c] # 0 /\ owner[c] # id

\* The variables of a streamplot run, unused while the mask is driven directly.
NoRun ==
    /\ inp = [mnx |-> ApiSide, mny |-> ApiSide]
    /\ gen = None
    /\ pc = "api"
    /\ seed = None
    /\ it = None
    /\ fwd = None
    /\ trajectories = <<>>
    /\ result = None
    /\ exc = "none"
    /\ maskAtStart = None

InitMask ==
    /\ NoRun
    /\ NoGen
    /\ NoArt
    /\ NoGrid
    /\ _mask = NewMask(ApiSide, ApiSide)
    /\ _traj = <<>>
    /\ _current_xy = None
    /\ owner = [c \in ApiCells |-> 0]
    /\ trajId = 0
    /\ last = [op |-> "init", cell |-> None, collided |-> FALSE, err |-> "none"]

\* owner after a call that left the mask as m2.
OwnerAfter(m2, id) ==
    [c \in ApiCells |->
        IF m2[c] = 0 THEN 0
        ELSE IF _mask[c] = 0 THEN id ELSE owner[c]]

StartTrajectory ==
    \E c \in ApiCells :
        LET r == _start_trajectory(Here, c[2], c[1]) IN
        /\ trajId < MaxTraj
        /\ _mask' = r.ms.mask
        /\ _traj' = r.ms.traj
        /\ _current_xy' = r.ms.cur
        /\ trajId' = trajId + 1
        /\ owner' = OwnerAfter(r.ms.mask, trajId + 1)
        /\ last' = [op |-> "start", cell |-> c,
                    collided |-> HeldByOther(c, trajId + 1), err |-> r.err]
        /\ UNCHANGED <<artVars, streamVars, genHistory, gridVars>>

UpdateTrajectory ==
    \E c \in ApiCells :
        LET r == _update_trajectory(Here, c[2], c[1]) IN
        /\ trajId > 0
        /\ Len(_traj) < MaxTrajLen
        /\ _mask' = r.ms.mask
        /\ _traj' = r.ms.traj
        /\ _current_xy' = r.ms.cur
        /\ owner' = OwnerAfter(r.ms.mask, trajId)
        /\ last' = [op |-> "update", cell |-> c,
                    collided |-> HeldByOther(c, trajId), err |-> r.err]
        /\ UNCHANGED <<artVars, trajId, streamVars, genHistory, gridVars>>

ResetStartPoint ==
    \E c \in ApiCells :
        LET ms == reset_start_point_m(Here, c[2], c[1]) IN
        /\ trajId > 0
        /\ _current_xy' = ms.cur
        /\ last' = [op |-> "reset", cell |-> c, collided |-> FALSE, err |-> "none"]
        /\ UNCHANGED <<artVars, _mask, _traj, owner, trajId, streamVars, genHistory, gridVars>>

UndoTrajectory ==
    LET ms == _undo_trajectory(Here) IN
    /\ trajId > 0
    /\ _mask' = ms.mask
    /\ owner' = OwnerAfter(ms.mask, trajId)
    /\ last' = [op |-> "undo", cell |-> None, collided |-> FALSE, err |-> "none"]
    /\ UNCHANGED <<artVars, _traj, _current_xy, trajId, streamVars, genHistory, gridVars>>

NextMask ==
    \/ StartTrajectory
    \/ UpdateTrajectory
    \/ ResetStartPoint
    \/ UndoTrajectory

SpecMask == InitMask /\ [][NextMask]_vars

(***************************************************************************)
(* SpecDomain: the trajectory methods of a DomainMap driven by an          *)
(* arbitrary caller with grid coordinates inside and outside the grid.     *)
(* The grid has two points per axis; the mask is ApiSide x ApiSide.        *)
(***************************************************************************)
\* Grid points handed to the methods: on the row y = 0 two valid indices,
\* x = 0 and x = 1, and two outside the grid, x = -1 and x = 2; on the row
\* y = 1 the valid indices.
DomainPoints == ({-Q, 0, Q, 2 * Q} \X {0}) \cup ({0, Q} \X {Q})

InitDomain ==
    /\ inp = [nx |-> 2, ny |-> 2, mnx |-> ApiSide, mny |-> ApiSide]
    /\ _mask = NewMask(inp.mny, inp.mnx)
    /\ _traj = <<>>
    /\ _current_xy = None
    /\ trajId = 0
    /\ last = [op |-> "init", inside |-> FALSE, err |-> "none"]
    /\ pc = "domain"
    /\ gen = None /\ seed = None /\ it = None /\ fwd = None
    /\ trajectories = <<>> /\ result = None /\ exc = "none"
    /\ maskAtStart = None /\ owner = None
    /\ NoGen
    /\ NoArt
    /\ NoGrid

\* A method was called with the grid point p and left the mask as ms,
\* raising err ("none": it returned).
Called(op, p, ms, err) ==
    /\ SetMask(ms)
    /\ last' = [op |-> op, inside |-> valid_index(inp.nx, inp.ny, p[1], p[2]), err |-> err]
    /\ UNCHANGED <<artVars, inp, gen, pc, seed, it, fwd, trajectories, result, exc,
                   maskAtStart, owner, genHistory, gridVars>>

\* dmap.start_trajectory(xg, yg).
DomainStart ==
    /\ pc = "domain"
    /\ trajId < MaxTraj
    /\ trajId' = trajId + 1
    /\ \E p \in DomainPoints :
          Called("start", p, start_trajectory(Here, p[1], p[2]).ms,
                 start_trajectory(Here, p[1], p[2]).err)

\* dmap.update_trajectory(xg, yg).
DomainUpdate ==
    /\ pc = "domain"
    /\ trajId > 0
    /\ Len(_traj) < MaxTrajLen
    /\ UNCHANGED trajId
    /\ \E p \in DomainPoints :
          Called("update", p, update_trajectory(Here, p[1], p[2]).ms,
                 update_trajectory(Here, p[1], p[2]).err)

\* dmap.reset_start_point(xg, yg).
DomainReset ==
    /\ pc = "domain"
    /\ trajId > 0
    /\ UNCHANGED trajId
    /\ \E p \in DomainPoints :
          Called("reset", p, reset_start_point(Here, p[1], p[2]), "none")

\* dmap.undo_trajectory().
DomainUndo ==
    /\ pc = "domain"
    /\ trajId > 0
    /\ UNCHANGED trajId
    /\ Called("undo", <<0, 0>>, undo_trajectory(Here), "none")

NextDomain ==
    \/ DomainStart
    \/ DomainUpdate
    \/ DomainReset
    \/ DomainUndo

SpecDomain == InitDomain /\ [][NextDomain]_vars

\* This step is an update_trajectory call that raises InvalidIndexError.
UpdateFails == last'.op = "update" /\ last'.err = "InvalidIndexError"

\* C28: an update_trajectory call that fails, the position being outside
\* the grid or the target cell occupied, changes nothing: the mask array,
\* the cells visited by the current trajectory and the current-cell marker
\* are after the InvalidIndexError what they were before the call.
C28_FailedUpdateChangesNothing ==
    [][(pc = "domain" /\ UpdateFails) => UNCHANGED <<_mask, _traj, _current_xy>>]_vars

\* update_trajectory raised on a position inside the grid, its cell being
\* occupied and not the current one, while the trajectory held cells.
C28_Witness ==
    /\ pc = "domain"
    /\ last.op = "update" /\ last.err = "InvalidIndexError" /\ last.inside
    /\ Len(_traj) >= 2
    /\ \E c \in DOMAIN _mask : _mask[c] = 1 /\ \A k \in 1 .. Len(_traj) : _traj[k] # c

\* C1: an attempt (start or update) to occupy a cell that a different,
\* not undone trajectory has marked raises InvalidIndexError.
C1_CollisionAlwaysRaises ==
    last.collided => last.err = "InvalidIndexError"

\* C18: update_trajectory signals a collision only for a non-self cell: it
\* raises InvalidIndexError only when the target cell is held by a different
\* trajectory, never for the current cell or for a cell the current
\* trajectory marked earlier.
C18_CollisionOnlyForOtherTrajectory ==
    (last.op = "update" /\ last.err = "InvalidIndexError") => last.collided

(***************************************************************************)
(* SpecGen: _gen_starting_points run to exhaustion, for every mask shape   *)
(* DomainMap accepts with two cells or more per axis (with one cell on an  *)
(* axis DomainMap.__init__ divides by zero before the generator is made).  *)
(***************************************************************************)
InitGen ==
    /\ inp \in [mny : 2 .. MaxSide, mnx : 2 .. MaxSide]
    /\ gen = GenStart(inp.mny, inp.mnx)
    /\ yielded = <<>>
    /\ pc = "gen"
    /\ _mask = None /\ _traj = <<>> /\ _current_xy = None
    /\ seed = None /\ it = None /\ fwd = None /\ trajectories = <<>>
    /\ result = None /\ exc = "none" /\ maskAtStart = None
    /\ owner = None /\ trajId = 0 /\ last = None
    /\ NoGrid
    /\ NoArt

\* next() on the generator: the yield, and the code up to the next yield.
Yield ==
    /\ pc = "gen"
    /\ GenHasNext(gen)
    /\ yielded' = Append(yielded, GenPoint(gen))
    /\ gen' = GenAdvance(gen)
    /\ UNCHANGED <<artVars, inp, _mask, _traj, _current_xy, pc, seed, it, fwd, trajectories,
                   result, exc, maskAtStart, maskHistory, gridVars>>

\* next() on the exhausted generator: the for loop of the caller ends.
StopIteration ==
    /\ pc = "gen"
    /\ ~GenHasNext(gen)
    /\ pc' = "exhausted"
    /\ UNCHANGED <<artVars, inp, _mask, _traj, _current_xy, gen, seed, it, fwd, trajectories,
                   result, exc, maskAtStart, maskHistory, genHistory, gridVars>>

NextGen ==
    \/ Yield
    \/ StopIteration

SpecGen == InitGen /\ [][NextGen]_vars

\* The lap a point belongs to: 0 on the outer boundary of the mask, 1 on the
\* boundary of the rectangle inside it, and so on.
Lap(p) == Min(Min(p[1], p[2]), Min(inp.mnx - 1 - p[1], inp.mny - 1 - p[2]))

MaskCells == (0 .. inp.mnx - 1) \X (0 .. inp.mny - 1)

\* The move from the i-th point yielded to the next one.
Move(i) == <<yielded[i + 1][1] - yielded[i][1], yielded[i + 1][2] - yielded[i][2]>>

\* The direction after a turn: right, up, left, down, right.
Turn(d) ==
    CASE d = <<1, 0>> -> <<0, 1>>
      [] d = <<0, 1>> -> <<-1, 0>>
      [] d = <<-1, 0>> -> <<0, -1>>
      [] d = <<0, -1>> -> <<1, 0>>

\* C7: the first point yielded is the corner (0, 0); the moves are single
\* steps, the first one to the right, each in the direction of the move
\* before it or in the next of right, up, left, down; and a point of a lap is
\* yielded only when every cell of the laps outside it has been yielded, so
\* the whole outer boundary comes before any interior cell.
C7_SpiralBoundaryFirst ==
    /\ yielded # <<>> => yielded[1] = <<0, 0>>
    /\ Len(yielded) >= 2 => Move(1) = <<1, 0>>
    /\ \A i \in 1 .. Len(yielded) - 2 :
          Move(i + 1) = Move(i) \/ Move(i + 1) = Turn(Move(i))
    /\ \A i \in 1 .. Len(yielded) :
          \A c \in MaskCells :
              Lap(c) < Lap(yielded[i]) => \E j \in 1 .. i - 1 : yielded[j] = c

\* The generator is exhausted after a second lap on a mask with interior
\* cells, the last point yielded being one of them.
C7_Witness ==
    /\ pc = "exhausted"
    /\ Len(yielded) = inp.mnx * inp.mny
    /\ Lap(yielded[Len(yielded)]) >= 1
    /\ inp.mnx >= 4 /\ inp.mny >= 3

(***************************************************************************)
(* SpecSeeds: _gen_starting_points called as a function on every shape     *)
(* (ny, nx) with one cell or more per axis, and run to exhaustion.         *)
(***************************************************************************)
InitSeeds ==
    /\ inp \in [mny : 1 .. MaxSide, mnx : 1 .. MaxSide]
    /\ gen = GenStart(inp.mny, inp.mnx)
    /\ yielded = <<>>
    /\ pc = "gen"
    /\ _mask = None /\ _traj = <<>> /\ _current_xy = None
    /\ seed = None /\ it = None /\ fwd = None /\ trajectories = <<>>
    /\ result = None /\ exc = "none" /\ maskAtStart = None
    /\ owner = None /\ trajId = 0 /\ last = None
    /\ NoGrid
    /\ NoArt

SpecSeeds == InitSeeds /\ [][NextGen]_vars

\* C25: for every shape (ny, nx) with nx >= 1 and ny >= 1,
\* _gen_starting_points yields exactly nx * ny points, each of them a mask
\* cell (0 <= x < nx, 0 <= y < ny), and no cell twice.
C25_EveryCellYieldedOnce ==
    /\ \A i \in 1 .. Len(yielded) : yielded[i] \in MaskCells
    /\ \A i, j \in 1 .. Len(yielded) : i # j => yielded[i] # yielded[j]
    /\ pc = "exhausted" => Len(yielded) = inp.mnx * inp.mny

(***************************************************************************)
(* SpecGrid: Grid(x, y) is constructed from coordinate arrays, then        *)
(* valid_index is called on it.                                            *)
(***************************************************************************)
\* Increasing coordinate values 0 .. MaxCoord, 2 .. MaxGrid of them: evenly
\* spaced (0, 1, 2) or not (0, 1, 3).
Coordinates ==
    UNION {{a \in [1 .. n -> 0 .. MaxCoord] : \A k \in 1 .. n - 1 : a[k] < a[k + 1]} :
              n \in 2 .. MaxGrid}

\* a with 1 added to every element.
Shifted(a) == [k \in 1 .. Len(a) |-> a[k] + 1]

\* What a caller hands in for x: the values themselves, their meshgrid form
\* (rows that repeat them), or a two-dimensional array whose rows differ.
XArrays == UNION {{Array1(a), Array2(<<a, a>>), Array2(<<a, Shifted(a)>>)} : a \in Coordinates}

\* The same for y, where the columns repeat the values.
Columns(a, b) == [r \in 1 .. Len(a) |-> <<a[r], b[r]>>]
YArrays ==
    UNION {{Array1(a), Array2(Columns(a, a)), Array2(Columns(a, Shifted(a)))} :
              a \in Coordinates}

\* Grid coordinates valid_index is asked about: every half from -1/2 up to
\* half a step past the last node of the longest axis.
ProbeCoords == {(k * Q) \div 2 : k \in -1 .. 2 * MaxGrid - 1}

InitGrid ==
    /\ args \in [x : XArrays, y : YArrays]
    /\ grid = [raised |-> "new"]
    /\ probe = [called |-> FALSE]
    /\ pc = "new"
    /\ exc = "none"
    /\ inp = None /\ gen = None
    /\ _mask = None /\ _traj = <<>> /\ _current_xy = None
    /\ seed = None /\ it = None /\ fwd = None /\ trajectories = <<>>
    /\ result = None /\ maskAtStart = None
    /\ owner = None /\ trajId = 0 /\ last = None
    /\ NoGen
    /\ NoArt

\* The outcome g of Grid(x, y), line 71 of streamplot.
Constructed(g) ==
    /\ grid' = g
    /\ exc' = g.raised
    /\ pc' = IF g.raised = "none" THEN "grid" ELSE "raised"

Construct ==
    /\ pc = "new"
    /\ Constructed(Grid(args.x, args.y))
    /\ UNCHANGED <<artVars, inp, _mask, _traj, _current_xy, gen, seed, it, fwd, trajectories,
                   result, maskAtStart, maskHistory, genHistory, args, probe>>

ValidIndex ==
    /\ pc = "grid"
    /\ \E xi \in ProbeCoords, yi \in ProbeCoords :
          probe' = [called |-> TRUE, xi |-> xi, yi |-> yi, valid |-> valid_index(grid.nx, grid.ny, xi, yi)]
    /\ UNCHANGED <<artVars, inp, _mask, _traj, _current_xy, gen, pc, seed, it, fwd, trajectories,
                   result, exc, maskAtStart, maskHistory, genHistory, args, grid>>

NextGrid ==
    \/ Construct
    \/ ValidIndex

SpecGrid == InitGrid /\ [][NextGrid]_vars

\* valid_index has been called.
Probed == probe.called

\* The point asked about lies strictly outside the rectangle
\* [0, nx-1] x [0, ny-1] of the grid.
OutsideGrid ==
    \/ probe.xi < 0 \/ probe.xi > (grid.nx - 1) * Q
    \/ probe.yi < 0 \/ probe.yi > (grid.ny - 1) * Q

\* C9: valid_index is true for every point of the rectangle
\* 0 <= xi <= nx-1, 0 <= yi <= ny-1, integer or fractional, and false for
\* every point strictly outside it.
C9_ValidIndexIsRectangle ==
    Probed => (probe.valid <=> ~OutsideGrid)

\* valid_index was true for a point with a fractional x on the upper edge
\* yi = ny - 1.
C9_Witness ==
    /\ Probed
    /\ probe.valid
    /\ probe.xi % Q # 0
    /\ probe.yi = (grid.ny - 1) * Q

(***************************************************************************)
(* SpecInterp: interpgrid called on arrays of the shape of a Grid, at      *)
(* points inside and outside it.                                           *)
(***************************************************************************)
\* The state after Grid(x, y) of line 71 returned.
InitInterp ==
    /\ args \in [x : XArrays, y : YArrays]
    /\ Grid(args.x, args.y).raised = "none"
    /\ grid = Grid(args.x, args.y)
    /\ probe = [called |-> FALSE]
    /\ pc = "grid"
    /\ exc = "none"
    /\ inp = None /\ gen = None
    /\ _mask = None /\ _traj = <<>> /\ _current_xy = None
    /\ seed = None /\ it = None /\ fwd = None /\ trajectories = <<>>
    /\ result = None /\ maskAtStart = None
    /\ owner = None /\ trajId = 0 /\ last = None
    /\ NoGen
    /\ NoArt

\* interpgrid(a, xi, yi) on an array a of the grid's shape, as forward_time
\* calls it for u, v and speed: raised is TRUE when it raised IndexError.
Interpgrid ==
    /\ pc = "grid"
    /\ \E xi \in ProbeCoords, yi \in ProbeCoords :
          probe' = [called |-> FALSE, sampled |-> TRUE, xi |-> xi, yi |-> yi,
                    raised |-> ~interpgrid_ok(grid.nx, grid.ny, xi, yi)]
    /\ UNCHANGED <<artVars, inp, _mask, _traj, _current_xy, gen, pc, seed, it, fwd, trajectories,
                   result, exc, maskAtStart, maskHistory, genHistory, args, grid>>

NextInterp == Interpgrid

SpecInterp == InitInterp /\ [][NextInterp]_vars

\* interpgrid has been called.
Sampled == "sampled" \in DOMAIN probe

\* C19: interpgrid raises IndexError for every sample point outside the
\* valid grid (valid_index false), points with negative coordinates
\* included, and for no point where valid_index is true.
C19_InterpgridRaisesIffInvalid ==
    Sampled => (probe.raised <=> ~valid_index(grid.nx, grid.ny, probe.xi, probe.yi))

\* The spacings of a are all equal.
EvenlySpaced(a) == \A k \in 1 .. Len(a) - 1 : a[k + 1] - a[k] = a[2] - a[1]

\* The values of x and of y the Grid is built from.
XValues == IF Len(args.x.shape) = 2 THEN args.x.data[1] ELSE args.x.data
YValues == IF Len(args.y.shape) = 2 THEN FirstCol(args.y) ELSE args.y.data

\* C10: a Grid is constructed only from evenly spaced x and y; arrays whose
\* consecutive spacings are not all equal are rejected.
C10_UnevenSpacingRejected ==
    pc = "grid" => EvenlySpaced(XValues) /\ EvenlySpaced(YValues)

(***************************************************************************)
(* StreamMask.__init__: from the density argument to the mask's shape.     *)
(***************************************************************************)
\* A density of k hundredths as a lattice number.
Hundredths(k) == k * (Q \div 100)

\* StreamMask.__init__, lines 259-270.  density is [type, d]: type is
\* "float", "int" or "list", and d is the sequence of its numbers (the one
\* number of a float or an int).  The outcome is the exception raised, or the mask's nx and ny.
StreamMask(density) ==
    IF density.type \in {"float", "int"}
    THEN IF ~(density.d[1] > 0)
         THEN [raised |-> "AssertionError", nx |-> 0, ny |-> 0]
         ELSE [raised |-> "none", nx |-> Trunc(30 * density.d[1], Q),
                                  ny |-> Trunc(30 * density.d[1], Q)]
    ELSE IF ~(Len(density.d) > 0)
         THEN [raised |-> "AssertionError", nx |-> 0, ny |-> 0]
         ELSE IF Len(density.d) < 2
              THEN [raised |-> "IndexError", nx |-> 0, ny |-> 0]
              ELSE [raised |-> "none", nx |-> Trunc(25 * density.d[1], Q),
                                       ny |-> Trunc(25 * density.d[2], Q)]

\* The densities handed to StreamMask: every float of 0 .. MaxDensity
\* hundredths, the ints 1 and 2, and the lists of up to two of ListDensities.
ListDensities == {Hundredths(k) : k \in {0, 4, 8, 12, 100}}
Densities ==
    {[type |-> "float", d |-> <<Hundredths(k)>>] : k \in 0 .. MaxDensity}
    \cup {[type |-> "int", d |-> <<n * Q>>] : n \in 1 .. 2}
    \cup {[type |-> "list", d |-> <<>>]}
    \cup {[type |-> "list", d |-> <<a>>] : a \in ListDensities}
    \cup {[type |-> "list", d |-> <<a, b>>] : a \in ListDensities, b \in ListDensities}

InitDensity ==
    /\ args \in [density : Densities]
    /\ pc = "new"
    /\ exc = "none"
    /\ inp = None /\ gen = None
    /\ _mask = None /\ _traj = <<>> /\ _current_xy = None
    /\ seed = None /\ it = None /\ fwd = None /\ trajectories = <<>>
    /\ result = None /\ maskAtStart = None
    /\ owner = None /\ trajId = 0 /\ last = None
    /\ NoGen
    /\ NoArt
    /\ grid = None /\ probe = None

\* mask = StreamMask(density), line 72 of streamplot, with outcome m.
MaskConstructed(m) ==
    /\ exc' = m.raised
    /\ pc' = IF m.raised = "none" THEN "mask" ELSE "raised"
    /\ inp' = IF m.raised = "none" THEN [mnx |-> m.nx, mny |-> m.ny] ELSE inp
    /\ _mask' = IF m.raised = "none" THEN NewMask(m.ny, m.nx) ELSE _mask

ConstructMask ==
    /\ pc = "new"
    /\ MaskConstructed(StreamMask(args.density))
    /\ UNCHANGED <<artVars, _traj, _current_xy, gen, seed, it, fwd, trajectories, result,
                   maskAtStart, maskHistory, genHistory, grid, probe, args>>

NextDensity == ConstructMask

SpecDensity == InitDensity /\ [][NextDensity]_vars

\* C11: a mask built from a scalar density d has int(25 * d) cells along
\* each axis (25 x 25 for density 1); a mask built from a pair (dx, dy) has
\* int(25 * dx) cells in x and int(25 * dy) cells in y.
C11_MaskHas25CellsPerUnitDensity ==
    pc = "mask" =>
        IF args.density.type = "list"
        THEN /\ inp.mnx = Trunc(25 * args.density.d[1], Q)
             /\ inp.mny = Trunc(25 * args.density.d[2], Q)
             /\ DOMAIN _mask = Cells(inp.mny, inp.mnx)
        ELSE /\ inp.mnx = Trunc(25 * args.density.d[1], Q)
             /\ inp.mny = Trunc(25 * args.density.d[1], Q)
             /\ DOMAIN _mask = Cells(inp.mny, inp.mnx)

(***************************************************************************)
(* mplot3d/art3d.py: projection, normals and shading.                      *)
(*                                                                         *)
(* Points are <<x, y, z>> with integer coordinates.  Colours are           *)
(* <<r, g, b, a>> with rational channels, brightness fractions are         *)
(* rationals, so shading is exact.                                         *)
(***************************************************************************)
RatMul(p, q) == Rat(p[1] * q[1], p[2] * q[2])
RatLeq(p, q) == p[1] * q[2] <= q[1] * p[2]

\* An optional value: x is None, or x is v.
Nothing == [some |-> FALSE, v |-> <<>>]
Some(x) == [some |-> TRUE, v |-> <<x>>]
Get(o) == o.v[1]

\* One row of M . (x, y, z, 1).
Row(M, i, p) == M[i][1] * p[1] + M[i][2] * p[2] + M[i][3] * p[3] + M[i][4]

\* proj3d._proj_transform_vec for one point: M . (x, y, z, 1) divided by its
\* w.  The views of the model make every quotient an integer.
_proj_transform_vec(p, M) ==
    <<Row(M, 1, p) \div Row(M, 4, p),
      Row(M, 2, p) \div Row(M, 4, p),
      Row(M, 3, p) \div Row(M, 4, p)>>

\* The matrices axes.M takes: depth -z, depth x (x and z swapped), and a
\* perspective view whose w is 2 - z.
Views ==
    {<<<<1, 0, 0, 0>>, <<0, 1, 0, 0>>, <<0, 0, -1, 0>>, <<0, 0, 0, 1>>>>,
     <<<<0, 0, 1, 0>>, <<0, 1, 0, 0>>, <<1, 0, 0, 0>>, <<0, 0, 0, 1>>>>,
     <<<<2, 0, 0, 0>>, <<0, 2, 0, 0>>, <<0, 0, 2, 0>>, <<0, 0, -1, 2>>>>}

\* np.cross(a, b).
cross(a, b) ==
    <<a[2] * b[3] - a[3] * b[2], a[3] * b[1] - a[1] * b[3], a[1] * b[2] - a[2] * b[1]>>

Minus(a, b) == <<a[1] - b[1], a[2] - b[2], a[3] - b[3]>>

\* _generate_normals for one polygon ps, lines 1531-1540: the points at
\* 0, n // 3 and 2 n // 3 (0-based).
Normal(ps) ==
    cross(Minus(ps[1], ps[(Len(ps) \div 3) + 1]),
          Minus(ps[(Len(ps) \div 3) + 1], ps[((2 * Len(ps)) \div 3) + 1]))

_generate_normals(polygons) == [i \in 1 .. Len(polygons) |-> Normal(polygons[i])]

\* np.linalg.norm of an integer vector whose length is an integer.
Norm(n) == CHOOSE r \in 0 .. Abs(n[1]) + Abs(n[2]) + Abs(n[3]) :
              r * r = n[1] * n[1] + n[2] * n[2] + n[3] * n[3]

\* (normal / norm) @ direction, line 1554-1555: nan for the zero normal
\* (0 / 0), else the rational dot product with the light's direction.
ShadeOf(n, direction) ==
    IF Norm(n) = 0
    THEN [nan |-> TRUE, v |-> <<0, 1>>]
    ELSE [nan |-> FALSE,
          v |-> RatMul(RatAdd(RatAdd(RatMulInt(direction[1], n[1]),
                                     RatMulInt(direction[2], n[2])),
                              RatMulInt(direction[3], n[3])),
                       <<1, Norm(n)>>)]

\* norm(x) = out_norm(in_norm(x)), lines 1560-1565: Normalize(-1, 1) followed
\* by the inverse of Normalize(0.3, 1).
in_norm(x) == RatMul(RatAdd(x, <<1, 1>>), <<1, 2>>)

OutNormFromZero(v) == v

out_norm(v) == RatAdd(<<3, 10>>, RatMul(v, <<7, 10>>))

norm(x) == out_norm(in_norm(x))

\* Row i of an array of k rows broadcast against m rows.
Broadcast(a, i) == IF Len(a) = 1 THEN a[1] ELSE a[i]

\* norm(shade)[:, np.newaxis] * color followed by colors[:, 3] = alpha,
\* lines 1574-1575, for one row: shade value sh (nan set to 0, line 1567)
\* and colour c.
ShadedRow(sh, c) ==
    <<RatMul(norm(IF sh.nan THEN <<0, 1>> ELSE sh.v), c[1]),
      RatMul(norm(IF sh.nan THEN <<0, 1>> ELSE sh.v), c[2]),
      RatMul(norm(IF sh.nan THEN <<0, 1>> ELSE sh.v), c[3]),
      c[4]>>

\* The direction of LightSource(azdeg=225, altdeg=19.4712), lines 1550-1551.
DefaultLight == <<<<-2, 3>>, <<-2, 3>>, <<1, 3>>>>

\* _shade_colors, lines 1543-1578, for color an array of one colour or of
\* one colour per normal, and the light's direction.
_shade_colors(color, normals, direction) ==
    IF \E i \in 1 .. Len(normals) : ~ShadeOf(normals[i], direction).nan
    THEN [i \in 1 .. (IF Len(color) > Len(normals) THEN Len(color) ELSE Len(normals)) |->
             ShadedRow(ShadeOf(Broadcast(normals, i), direction), Broadcast(color, i))]
    ELSE color

(***************************************************************************)
(* Sorting: sorted(items, key, reverse=True) as CPython's list.sort does   *)
(* it: reverse the list, sort it stably in ascending order by insertion,   *)
(* reverse the result.  Keys are rationals <<numerator, denominator>>.     *)
(***************************************************************************)
KeyLess(a, b) == a[1] * b[2] < b[1] * a[2]

\* e goes behind every element that is not greater than it.
RECURSIVE InsertSorted(_, _)
InsertSorted(q, e) ==
    IF Len(q) = 0 THEN <<e>>
    ELSE IF KeyLess(e.key, q[Len(q)].key)
         THEN Append(InsertSorted(SubSeq(q, 1, Len(q) - 1), e), q[Len(q)])
         ELSE Append(q, e)

RECURSIVE StableSort(_)
StableSort(q) ==
    IF Len(q) = 0 THEN <<>>
    ELSE InsertSorted(StableSort(SubSeq(q, 1, Len(q) - 1)), q[Len(q)])

\* q[::-1] for a sequence of any elements.
Reversed(q) == [i \in 1 .. Len(q) |-> q[Len(q) + 1 - i]]

sorted_reverse(q) == Reversed(StableSort(Reversed(q)))

(***************************************************************************)
(* Poly3DCollection                                                        *)
(***************************************************************************)
\* Normalize(vmin, vmax)(z): 0 when vmin = vmax.
Normalize(vmin, vmax, z) == IF vmin = vmax THEN <<0, 1>> ELSE Rat(z - vmin, vmax - vmin)
MinOf(zs) == CHOOSE z \in {zs[k] : k \in 1 .. Len(zs)} : \A k \in 1 .. Len(zs) : z <= zs[k]
MaxOf(zs) == CHOOSE z \in {zs[k] : k \in 1 .. Len(zs)} : \A k \in 1 .. Len(zs) : z >= zs[k]

RECURSIVE Flatten(_)
Flatten(segs) == IF Len(segs) = 0 THEN <<>> ELSE Head(segs) \o Flatten(Tail(segs))

\* indices = [0, *np.cumsum(lengths)] and the slices between them, lines
\* 994-995.
RECURSIVE CumSum(_, _)
CumSum(segs, k) == IF k = 0 THEN 0 ELSE CumSum(segs, k - 1) + Len(segs[k])
SegSlices(segs) == [k \in 1 .. Len(segs) |-> <<CumSum(segs, k - 1), CumSum(segs, k)>>]

\* Poly3DCollection.get_vector, lines 985-995.
get_vector(c, segments3d) ==
    [c EXCEPT !._vec = Flatten(segments3d), !._segslices = SegSlices(segments3d)]

\* Poly3DCollection.set_verts, lines 997-1014: the 2D paths are emptied until
\* the next projection; _codes3d stays.
set_verts(c, verts, closed) ==
    [get_vector(c, verts) EXCEPT !._paths = <<>>, !._closed = closed]

\* Poly3DCollection.set_verts_and_codes, lines 1016-1022.
set_verts_and_codes(c, verts, codes) ==
    [set_verts(c, verts, FALSE) EXCEPT !._codes3d = Some(codes)]

\* v[sl] for a slice <<start, stop>>.
Slice(v, sl) == SubSeq(v, sl[1] + 1, sl[2])

\* Poly3DCollection.set_zsort, lines 971-983.
set_zsort(c, zsort) == [c EXCEPT !._zsortfunc = zsort, !._sort_zpos = Nothing]

\* Poly3DCollection.set_sort_zpos, lines 1035-1038.
set_sort_zpos(c, val) == [c EXCEPT !._sort_zpos = Some(val)]

\* a.repeat(n, axis=0): every row n times.
Repeat(a, n) == [i \in 1 .. Len(a) * n |-> a[((i - 1) \div n) + 1]]

RECURSIVE SumZ(_, _)
SumZ(ps, k) == IF k = 0 THEN 0 ELSE SumZ(ps, k - 1) + ps[k][3]
MinZ(ps) == CHOOSE z \in {ps[k][3] : k \in 1 .. Len(ps)} : \A k \in 1 .. Len(ps) : z <= ps[k][3]
MaxZ(ps) == CHOOSE z \in {ps[k][3] : k \in 1 .. Len(ps)} : \A k \in 1 .. Len(ps) : z >= ps[k][3]

\* _zsort_functions, lines 965-969, applied to the depths of the projected
\* points ps: the key as a rational.
zsortfunc(name, ps) ==
    IF name = "average" THEN <<SumZ(ps, Len(ps)), Len(ps)>>
    ELSE IF name = "min" THEN <<MinZ(ps), 1>>
    ELSE <<MaxZ(ps), 1>>

\* np.column_stack([xs, ys]) of projected points.
column_stack(ps) == [k \in 1 .. Len(ps) |-> <<ps[k][1], ps[k][2]>>]

\* Lines 1057-1058: the projected points of every polygon.
ProjectAll(vec, M) == [i \in 1 .. Len(vec) |-> _proj_transform_vec(vec[i], M)]
xyzlist(c, M) ==
    [k \in 1 .. Len(c._segslices) |->
        [v \in 1 .. c._segslices[k][2] - c._segslices[k][1] |->
            _proj_transform_vec(c._vec[c._segslices[k][1] + v], M)]]

\* Lines 1061-1069: the face and edge colours, one row per polygon.
cface(c, n) ==
    IF Len(c._facecolor3d) # n THEN Repeat(c._facecolor3d, n) ELSE c._facecolor3d
cedge(c, n) ==
    IF Len(c._edgecolor3d) # n
    THEN IF Len(c._edgecolor3d) = 0 THEN cface(c, n) ELSE Repeat(c._edgecolor3d, n)
    ELSE c._edgecolor3d

\* zip stops at its shortest argument.
ZipLen(xyz, cf, ce) == Min(Len(xyz), Min(Len(cf), Len(ce)))

\* Lines 1073-1077: the polygons with their key, colours and index, sorted.
z_segments_2d(c, xyz, cf, ce) ==
    sorted_reverse([k \in 1 .. ZipLen(xyz, cf, ce) |->
                       [key |-> zsortfunc(c._zsortfunc, xyz[k]),
                        seg |-> column_stack(xyz[k]),
                        fc |-> cf[k], ec |-> ce[k], idx |-> k - 1]])

\* PolyCollection.set_verts (codes None) and set_verts_and_codes: the 2D
\* paths, each with its vertices, its codes and whether it is to be closed.
Paths2d(c, zs2d) ==
    [k \in 1 .. Len(zs2d) |->
        [vertices |-> zs2d[k].seg,
         codes |-> IF c._codes3d.some THEN Some(Get(c._codes3d)[zs2d[k].idx + 1]) ELSE Nothing,
         closed |-> IF c._codes3d.some THEN FALSE ELSE c._closed]]

\* Lines 1096-1107: the value do_3d_projection returns.
ZorderValue(c, M) ==
    IF c._sort_zpos.some THEN _proj_transform_vec(<<0, 0, Get(c._sort_zpos)>>, M)[3]
    ELSE IF Len(c._vec) > 0 THEN MinZ(ProjectAll(c._vec, M))
    ELSE NaN

\* Lines 1079-1107 for the sorted polygons zs2d (none when there is no
\* polygon); unpacking zip(*[]) into five names raises ValueError, and
\* line 1088 (self._codes3d[idx]) raises IndexError, the 2D colours being
\* set already, when an emitted polygon has an index the codes do not have.
PolyProjected(c, M, n, ncface, zs2d) ==
    IF n > 0 /\ Len(zs2d) = 0
    THEN [raised |-> "ValueError", col |-> c, ret |-> 0, idxs |-> <<>>]
    ELSE IF c._codes3d.some
            /\ \E k \in 1 .. Len(zs2d) : zs2d[k].idx >= Len(Get(c._codes3d))
    THEN [raised |-> "IndexError",
          col |-> [c EXCEPT
                     !.projected = TRUE,
                     !._facecolors2d = [k \in 1 .. Len(zs2d) |-> zs2d[k].fc],
                     !._edgecolors2d = [k \in 1 .. Len(zs2d) |-> zs2d[k].ec]],
          ret |-> 0, idxs |-> <<>>]
    ELSE [raised |-> "none",
          col |-> [c EXCEPT
                     !.projected = TRUE,
                     !._facecolors2d = [k \in 1 .. Len(zs2d) |-> zs2d[k].fc],
                     !._edgecolors2d =
                         IF Len(c._edgecolor3d) # ncface
                         THEN c._edgecolor3d
                         ELSE [k \in 1 .. Len(zs2d) |-> zs2d[k].ec],
                     !._paths = Paths2d(c, zs2d)],
          ret |-> ZorderValue(c, M),
          idxs |-> [k \in 1 .. Len(zs2d) |-> zs2d[k].idx]]

PolySorted(c, M, xyz) ==
    PolyProjected(c, M, Len(xyz), Len(cface(c, Len(xyz))),
                  z_segments_2d(c, xyz, cface(c, Len(xyz)), cedge(c, Len(xyz))))

\* mcolors.to_rgba_array(c, alpha) for an array of RGBA rows: with an alpha,
\* every row takes it.
to_rgba_array(c, alpha) ==
    IF alpha.some THEN [i \in 1 .. Len(c) |-> <<c[i][1], c[i][2], c[i][3], Get(alpha)>>]
    ELSE c

\* The default colormap (viridis) at a normalised value v: its first row at
\* 0 and its last row at 1, the values the arrays of the runs normalise to.
cmap(v) ==
    IF v = <<0, 1>>
    THEN <<Rat(267004, 1000000), Rat(4874, 1000000), Rat(329415, 1000000), <<1, 1>>>>
    ELSE <<Rat(993248, 1000000), Rat(906157, 1000000), Rat(143936, 1000000), <<1, 1>>>>

\* ScalarMappable.to_rgba(self._A, self._alpha): the array normalised to the
\* colour limits and mapped, with the collection's alpha.
to_rgba(c) ==
    to_rgba_array([i \in 1 .. Len(Get(c._A)) |->
                      cmap(Normalize(Get(c.clim)[1], Get(c.clim)[2], Get(c._A)[i]))],
                  c._alpha)

\* Collection.update_scalarmappable: nothing without a mappable array; with
\* one, the face colours are the mapped ones (the face colour is never the
\* string 'none' here) and the edge colours, never 'face', are set again
\* from the ones last given.
update_scalarmappable(c) ==
    IF c._A.some
    THEN [c EXCEPT !._facecolors = to_rgba(c),
                   !._edgecolors = to_rgba_array(c._original_edgecolor, c._alpha)]
    ELSE c

\* Lines 1044-1056 (and 1299-1311): with a mappable array the mapping is
\* updated and the mapped face colours become the 3D ones.
MappedTo3d(c) == [c EXCEPT !._facecolor3d = c._facecolors]
color_mapped(c) == IF c._A.some THEN MappedTo3d(update_scalarmappable(c)) ELSE c

\* Poly3DCollection.do_3d_projection, lines 1040-1107, with axes.M = M.
do_3d_projection(c, M) == PolySorted(color_mapped(c), M, xyzlist(c, M))

\* Poly3DCollection.set_facecolor and set_edgecolor, lines 1109-1117: the
\* base class stores the colours with the collection's alpha (_facecolors,
\* _edgecolors), and they become the 3D colours; the colours cached by a
\* projection stay.
poly_set_facecolor(c, colors) ==
    [c EXCEPT !._facecolors = to_rgba_array(colors, c._alpha),
              !._facecolor3d = to_rgba_array(colors, c._alpha)]
poly_set_edgecolor(c, colors) ==
    [c EXCEPT !._original_edgecolor = colors,
              !._edgecolors = to_rgba_array(colors, c._alpha),
              !._edgecolor3d = to_rgba_array(colors, c._alpha)]

\* Poly3DCollection.set_alpha, lines 1119-1132: Artist.set_alpha stores the
\* alpha; _facecolor3d takes it, and line 1128 writes the edge colours with
\* it to the base class's _edgecolors, not to _edgecolor3d.
set_alpha(c, alpha) ==
    [c EXCEPT !._alpha = alpha,
              !._facecolor3d = to_rgba_array(c._facecolor3d, alpha),
              !._edgecolors = to_rgba_array(c._edgecolor3d, alpha)]

\* Poly3DCollection.set_3d_properties, lines 1024-1033: the mapping is
\* updated, the z-sort is the average again, _sort_zpos is None, and the 3D
\* colours are those of the base class.  (_alpha3d is written and never
\* read.)
Properties3d(c) ==
    [c EXCEPT !._sort_zpos = Nothing, !._zsortfunc = "average",
              !._facecolor3d = c._facecolors, !._edgecolor3d = c._edgecolors]
poly_set_3d_properties(c) == Properties3d(update_scalarmappable(c))

\* Lines 1137-1139 and 1145-1147: the projection a getter runs first when
\* the cache does not exist, with axes.M = M.
EnsureProjected(c, M) ==
    IF c.projected THEN [raised |-> "none", col |-> c] ELSE do_3d_projection(c, M)

\* Poly3DCollection.get_facecolor and get_edgecolor, lines 1134-1148: the
\* collection after the call, the colours returned and the exception raised.
FaceColours2d(e) ==
    [raised |-> e.raised, col |-> e.col,
     ret |-> IF e.raised = "none" THEN e.col._facecolors2d ELSE <<>>]
EdgeColours2d(e) ==
    [raised |-> e.raised, col |-> e.col,
     ret |-> IF e.raised = "none" THEN e.col._edgecolors2d ELSE <<>>]
poly_get_facecolor(c, M) == FaceColours2d(EnsureProjected(c, M))
poly_get_edgecolor(c, M) == EdgeColours2d(EnsureProjected(c, M))

\* The colours Collection.__init__ sets for facecolors=None (the default
\* patch colour) and for edgecolors=None (no edge colour).
DefaultFace == <<<<<<0, 1>>, <<0, 1>>, <<1, 1>>, <<1, 1>>>>>>
DefaultEdge == <<>>

\* Poly3DCollection.__init__, lines 938-963, for a = [verts, zsort, shade,
\* facecolors, edgecolors] with the default light source.  With shade set
\* and facecolors None, line 951 evaluates `edgecolors in None`, which
\* raises TypeError whatever edgecolors is.
\* The collection Collection.__init__ starts from: no alpha, no colours, no
\* mappable array, no colour limits, no paths.
NewCollection ==
    [kind |-> "Poly3DCollection",
     _vec |-> <<>>, _segslices |-> <<>>, _closed |-> TRUE,
     _codes3d |-> Nothing, _zsortfunc |-> "average", _sort_zpos |-> Nothing,
     _alpha |-> Nothing, _A |-> Nothing, clim |-> Nothing,
     _facecolors |-> <<>>, _edgecolors |-> <<>>, _original_edgecolor |-> <<>>,
     _facecolor3d |-> <<>>, _edgecolor3d |-> <<>>,
     projected |-> FALSE, _facecolors2d |-> <<>>, _edgecolors2d |-> <<>>,
     _paths |-> <<>>]

\* The colours the constructor hands to the base class, lines 940-950.
KwColours(a, given, default, normals) ==
    IF ~given.some THEN default
    ELSE IF a.shade THEN _shade_colors(Get(given), normals, DefaultLight)
    ELSE Get(given)

PolyInit(a, normals) ==
    IF a.shade /\ ~a.facecolors.some
    THEN [raised |-> "TypeError", col |-> None]
    ELSE [raised |-> "none",
          col |-> set_zsort(
                     set_verts(
                        poly_set_edgecolor(
                           poly_set_facecolor(NewCollection,
                                              KwColours(a, a.facecolors, DefaultFace, normals)),
                           KwColours(a, a.edgecolors, DefaultEdge, normals)),
                        a.verts, TRUE),
                     a.zsort)]

Poly3DCollection(a) == PolyInit(a, _generate_normals(a.verts))

\* juggle_axes and rotate_axes, lines 1455-1483, for one point.
rotate_axes(p, zdir) ==
    IF zdir \in {"x", "-y"} THEN <<p[2], p[3], p[1]>>
    ELSE IF zdir \in {"-x", "y"} THEN <<p[3], p[1], p[2]>>
    ELSE p
juggle_axes(p, zdir) ==
    IF zdir = "x" THEN <<p[3], p[1], p[2]>>
    ELSE IF zdir = "y" THEN <<p[1], p[3], p[2]>>
    ELSE IF zdir \in {"-x", "-y", "-z"} THEN rotate_axes(p, zdir)
    ELSE p

\* The 2D PolyCollection(verts, closed=closed, facecolors=..., edgecolors=...)
\* that poly_collection_2d_to_3d is handed, for a = [verts, closed,
\* facecolors, edgecolors]: one path per polygon and the colours of the base
\* class; every 3D attribute is written by the conversion before it is read.
PolyCollection(a) ==
    [NewCollection EXCEPT
       !.kind = "PolyCollection",
       !._facecolors = a.facecolors,
       !._edgecolors = a.edgecolors,
       !._original_edgecolor = a.edgecolors,
       !._paths = [k \in 1 .. Len(a.verts) |->
                      [vertices |-> a.verts[k], codes |-> Nothing, closed |-> a.closed]]]

\* path.iter_segments(simplify=False, curves=False): every vertex with its
\* code.  A path without codes is MOVETO (1) and then LINETO (2); a closed
\* polygon that has a vertex ends with its first vertex again, CLOSEPOLY
\* (79).
iter_segments(path) ==
    IF Len(path.vertices) = 0 THEN <<>>
    ELSE [k \in 1 .. Len(path.vertices) + (IF path.closed THEN 1 ELSE 0) |->
             [xy |-> IF k > Len(path.vertices) THEN path.vertices[1] ELSE path.vertices[k],
              code |-> IF path.codes.some THEN Get(path.codes)[k]
                       ELSE IF k = 1 THEN 1
                       ELSE IF k > Len(path.vertices) THEN 79
                       ELSE 2]]

\* _path_to_3d_segment_with_codes, lines 385-397, for the z of the path.
_path_to_3d_segment_with_codes(path, z, zdir) ==
    [seg3d |-> [k \in 1 .. Len(iter_segments(path)) |->
                   juggle_axes(<<iter_segments(path)[k].xy[1],
                                 iter_segments(path)[k].xy[2], z>>, zdir)],
     codes |-> [k \in 1 .. Len(iter_segments(path)) |-> iter_segments(path)[k].code]]

\* _paths_to_3d_segments_with_codes, lines 400-412: zs, one z or one z per
\* path, is broadcast to the paths.
_paths_to_3d_segments_with_codes(paths, zs, zdir) ==
    [segments |-> [k \in 1 .. Len(paths) |->
                      _path_to_3d_segment_with_codes(paths[k], Broadcast(zs, k), zdir).seg3d],
     codes |-> [k \in 1 .. Len(paths) |->
                   _path_to_3d_segment_with_codes(paths[k], Broadcast(zs, k), zdir).codes]]

\* poly_collection_2d_to_3d, lines 1435-1452: the class changes without
\* Poly3DCollection.__init__, and set_verts_and_codes and set_3d_properties
\* set the 3D attributes.
poly_collection_2d_to_3d(c, zs, zdir) ==
    poly_set_3d_properties(
        set_verts_and_codes([c EXCEPT !.kind = "Poly3DCollection"],
                            _paths_to_3d_segments_with_codes(c._paths, zs, zdir).segments,
                            _paths_to_3d_segments_with_codes(c._paths, zs, zdir).codes))

(***************************************************************************)
(* Poly3DCollection runs: construction, or the conversion of a 2D          *)
(* PolyCollection by poly_collection_2d_to_3d, then the public methods in  *)
(* any order: the setters set_zsort, set_sort_zpos, set_verts, get_vector, *)
(* set_verts_and_codes, set_3d_properties, set_alpha, set_facecolor and    *)
(* set_edgecolor, do_3d_projection under changing views, and the getters   *)
(* get_facecolor and get_edgecolor.                                        *)
(***************************************************************************)
\* The polygons of the runs: triangles on the faces z = 0, z = 1 and x = 0
\* of the unit cube.
Triangle(i) ==
    <<<<<<0, 0, 0>>, <<1, 0, 0>>, <<0, 1, 0>>>>,
      <<<<0, 0, 1>>, <<1, 0, 1>>, <<0, 1, 1>>>>,
      <<<<0, 0, 0>>, <<0, 0, 1>>, <<0, 1, 1>>>>>>[(i % 3) + 1]
Polys == {Triangle(i) : i \in 0 .. 2}
VertLists == UNION {[1 .. n -> Polys] : n \in 0 .. MaxPolys}
\* The argument of set_verts: one polygon, or MaxPolys polygons.
NewVerts == {[i \in 1 .. n |-> Triangle(i + 1)] : n \in {1, MaxPolys}}

ZSorts == {"average", "min", "max"}
ZPositions == {1}
\* The argument of set_alpha.
Alphas == {Some(<<1, 2>>)}

\* Colours and path codes that differ from polygon to polygon.
FaceColour(i) == <<Rat(i, 8), <<1, 2>>, <<0, 1>>, Rat((i % 2) + 1, 2)>>
EdgeColour(i) == <<<<0, 1>>, Rat(i, 8), <<1, 1>>, <<1, 1>>>>
PathCodes(i) == <<1, 2, <<2, 79, 0, 3, 4>>[(i % 5) + 1]>>
\* Colours that no constructor argument of the runs holds.
NewColour(i) == <<<<1, 1>>, <<1, 1>>, Rat(i, 8), <<1, 1>>>>

\* facecolors and edgecolors for n polygons: each None or one colour, or
\* both one colour per polygon.
ColourArgs(n) ==
    ({Nothing, Some(<<FaceColour(1)>>)} \X {Nothing, Some(<<EdgeColour(1)>>)})
    \cup {<<Some([i \in 1 .. n |-> FaceColour(i)]), Some([i \in 1 .. n |-> EdgeColour(i)])>>}

PolyArgs ==
    UNION {[verts : {v}, zsort : {"average"}, shade : BOOLEAN,
            facecolors : {k[1]}, edgecolors : {k[2]}] : <<v, k>> \in
                UNION {{<<w, kw>> : kw \in ColourArgs(Len(w))} : w \in VertLists}}

\* The log of the last call: its name, for a projection the view and the
\* indices emitted, for a getter the colour setter called right before it
\* if there is one, and the number of setter calls of the run so far.
NoCall == [call |-> "none", M |-> <<>>, idxs |-> <<>>, prev |-> "none", setters |-> 0]

InitPoly ==
    /\ args \in PolyArgs
    /\ col = None /\ drawn = None
    /\ pc = "new"
    /\ exc = "none"
    /\ last = NoCall
    /\ result = None
    /\ inp = None /\ gen = None
    /\ _mask = None /\ _traj = <<>> /\ _current_xy = None
    /\ seed = None /\ it = None /\ fwd = None /\ trajectories = <<>>
    /\ maskAtStart = None
    /\ owner = None /\ trajId = 0
    /\ NoGen
    /\ grid = None /\ probe = None

\* What no 3D collection run changes.
streamplotVars ==
    <<inp, _mask, _traj, _current_xy, gen, seed, it, fwd, trajectories, maskAtStart,
      owner, trajId, yielded, grid, probe>>

\* The constructor returned or raised: r is its outcome.
Constructed3d(r) ==
    /\ col' = r.col
    /\ exc' = r.raised
    /\ pc' = IF r.raised = "none" THEN "ready" ELSE "raised"
    /\ last' = [NoCall EXCEPT !.call = "__init__"]

ConstructPoly ==
    /\ pc = "new"
    /\ Constructed3d(Poly3DCollection(args))
    /\ UNCHANGED <<args, drawn, result, streamplotVars>>

\* The arguments of poly_collection_2d_to_3d: a PolyCollection of no
\* polygon, of one or of MaxPolys polygons (those of the run seen along z),
\* closed or not, with the colours of the run, one z per polygon and the axis
\* the z are placed along.
ConvertVerts == {[i \in 1 .. n |-> Triangle(i - 1)] : n \in 0 .. MaxPolys}
Flat(verts) == [k \in 1 .. Len(verts) |-> column_stack(verts[k])]
ZsOf(n) == [i \in 1 .. n |-> i - 1]
ZDirs == {"z", "x"}
\* A colour argument of the run, or the base class's default for None.
GivenOr(given, default) == IF given.some THEN Get(given) ELSE default

\* poly_collection_2d_to_3d(PolyCollection(...), zs, zdir) returned.
Converted3d(c) ==
    /\ col' = c
    /\ exc' = "none"
    /\ pc' = "ready"
    /\ last' = [NoCall EXCEPT !.call = "poly_collection_2d_to_3d"]

ConvertPoly ==
    /\ pc = "new"
    /\ ~args.shade /\ args.verts \in ConvertVerts
    /\ \E closed \in BOOLEAN, zdir \in ZDirs :
          Converted3d(poly_collection_2d_to_3d(
              PolyCollection([verts |-> Flat(args.verts), closed |-> closed,
                              facecolors |-> GivenOr(args.facecolors, DefaultFace),
                              edgecolors |-> GivenOr(args.edgecolors, DefaultEdge)]),
              ZsOf(Len(args.verts)), zdir))
    /\ UNCHANGED <<args, drawn, result, streamplotVars>>

\* The setter called name returned, leaving the collection c.
SetterBudget == IF col.kind = "Bar3DCollection" THEN MaxBarSetterCalls ELSE MaxSetterCalls

SetterReturned(name, c) ==
    /\ pc = "ready"
    /\ last.setters < SetterBudget
    /\ col' = c
    /\ last' = [NoCall EXCEPT !.call = name, !.setters = last.setters + 1]
    /\ result' = None
    /\ UNCHANGED <<args, drawn, pc, exc, streamplotVars>>

SetZsort == \E zsort \in ZSorts : SetterReturned("set_zsort", set_zsort(col, zsort))

SetSortZpos == \E val \in ZPositions : SetterReturned("set_sort_zpos", set_sort_zpos(col, val))

\* set_verts(verts) with the default closed=True.
SetVerts == \E verts \in NewVerts : SetterReturned("set_verts", set_verts(col, verts, TRUE))

\* get_vector(segments3d) called on its own: the 2D paths stay.
GetVector == \E verts \in NewVerts : SetterReturned("get_vector", get_vector(col, verts))

SetVertsAndCodes ==
    SetterReturned("set_verts_and_codes",
                   set_verts_and_codes(col, args.verts,
                                       [i \in 1 .. Len(args.verts) |-> PathCodes(i)]))

SetProperties3d == SetterReturned("set_3d_properties", poly_set_3d_properties(col))

SetAlpha == \E alpha \in Alphas : SetterReturned("set_alpha", set_alpha(col, alpha))

\* The argument of a colour setter: one colour per polygon of the
\* collection, or MaxPolys + 1 colours, more than it has polygons.
NewColours == {[i \in 1 .. n |-> NewColour(i)] : n \in {Len(col._segslices), MaxPolys + 1}}

SetFacecolor ==
    /\ pc = "ready"
    /\ \E colors \in NewColours : SetterReturned("set_facecolor", poly_set_facecolor(col, colors))

SetEdgecolor ==
    /\ pc = "ready"
    /\ \E colors \in NewColours : SetterReturned("set_edgecolor", poly_set_edgecolor(col, colors))

\* do_3d_projection returned or raised: r is its outcome under the view M.
Projected3d(r, M) ==
    /\ col' = r.col
    /\ exc' = r.raised
    /\ pc' = IF r.raised = "none" THEN "ready" ELSE "raised"
    /\ result' = [ret |-> r.ret]
    /\ last' = [NoCall EXCEPT !.call = "do_3d_projection", !.M = M, !.idxs = r.idxs,
                             !.setters = last.setters]

ProjectPoly ==
    /\ pc = "ready"
    /\ \E M \in Views : Projected3d(do_3d_projection(col, M), M)
    /\ UNCHANGED <<args, drawn, streamplotVars>>

\* A getter returned or raised: r is its outcome.
Got(call, r) ==
    /\ col' = r.col
    /\ exc' = r.raised
    /\ pc' = IF r.raised = "none" THEN "ready" ELSE "raised"
    /\ result' = [ret |-> r.ret]
    /\ last' = [NoCall EXCEPT !.call = call, !.setters = last.setters,
                             !.prev = IF last.call \in {"set_facecolor", "set_edgecolor"}
                                      THEN last.call ELSE "none"]
    /\ UNCHANGED <<args, drawn, streamplotVars>>

GetFacecolor ==
    /\ pc = "ready"
    /\ \E M \in Views : Got("get_facecolor", poly_get_facecolor(col, M))

GetEdgecolor ==
    /\ pc = "ready"
    /\ \E M \in Views : Got("get_edgecolor", poly_get_edgecolor(col, M))

NextPoly ==
    \/ ConstructPoly
    \/ ConvertPoly
    \/ SetZsort
    \/ SetSortZpos
    \/ SetVerts
    \/ GetVector
    \/ SetVertsAndCodes
    \/ SetProperties3d
    \/ SetAlpha
    \/ SetFacecolor
    \/ SetEdgecolor
    \/ ProjectPoly
    \/ GetFacecolor
    \/ GetEdgecolor

SpecPoly == InitPoly /\ [][NextPoly]_vars

\* The latest call was a do_3d_projection that returned.
JustProjected == pc = "ready" /\ last.call = "do_3d_projection"

\* The z-sort key of input polygon i (0-based) under the view of the latest
\* projection: the average, minimum or maximum of its projected depths.
KeyOf(i) == zsortfunc(col._zsortfunc, xyzlist(col, last.M)[i + 1])

\* Colour i (0-based) of a colour array that a collection cycles through.
Cycled(a, i) == a[(i % Len(a)) + 1]

\* C12: do_3d_projection emits the polygons by descending z-sort key,
\* polygons of equal key in their input order, every input polygon once, and
\* each emitted polygon carries the vertices, the face colour, the edge
\* colour and the path codes of the input polygon it is (polygon i has
\* colour i of a colour array, counted cyclically).
C12_PolygonsFarthestFirstStable ==
    JustProjected =>
        /\ Len(col._paths) = Len(col._segslices)
        /\ {last.idxs[k] : k \in 1 .. Len(last.idxs)} = 0 .. Len(col._segslices) - 1
        /\ \A k \in 1 .. Len(col._paths) - 1 :
              \/ KeyLess(KeyOf(last.idxs[k + 1]), KeyOf(last.idxs[k]))
              \/ /\ KeyOf(last.idxs[k + 1])[1] * KeyOf(last.idxs[k])[2]
                        = KeyOf(last.idxs[k])[1] * KeyOf(last.idxs[k + 1])[2]
                 /\ last.idxs[k] < last.idxs[k + 1]
        /\ \A k \in 1 .. Len(col._paths) :
              /\ col._paths[k].vertices = column_stack(xyzlist(col, last.M)[last.idxs[k] + 1])
              /\ Cycled(col._facecolors2d, k - 1) = Cycled(col._facecolor3d, last.idxs[k])
              /\ Len(col._edgecolor3d) > 0 =>
                    Cycled(col._edgecolors2d, k - 1) = Cycled(col._edgecolor3d, last.idxs[k])
              /\ Len(col._edgecolor3d) = 0 => Len(col._edgecolors2d) = 0
              /\ col._codes3d.some =>
                    col._paths[k].codes = Some(Get(col._codes3d)[last.idxs[k] + 1])

(***************************************************************************)
(* Path3DCollection                                                        *)
(***************************************************************************)
\* a[idx] for an index array idx (0-based), and a[slice(-1)].
Take(a, idx) == [k \in 1 .. Len(idx) |-> a[idx[k] + 1]]
AllButLast(a) == SubSeq(a, 1, Len(a) - 1)

\* a[self._z_markers_idx].
TakeMarkers(a, zidx) == IF zidx.slice THEN AllButLast(a) ELSE Take(a, zidx.idx)

\* np.argsort(vzs)[::-1], line 798: the indices in ascending order of depth
\* (numpy sorts arrays this short by insertion), reversed.
IndicesOf(q) == [k \in 1 .. Len(q) |-> q[k].idx]
argsort(vzs) ==
    IndicesOf(StableSort([i \in 1 .. Len(vzs) |-> [key |-> <<vzs[i], 1>>, idx |-> i - 1]]))
z_markers_idx(vzs) == Reversed(argsort(vzs))

\* _zalpha, lines 1486-1497: the alpha of colour i times
\* 1 - 0.7 * norm(zs[i]).
sats(zs, i) == RatAdd(<<1, 1>>, RatMul(<<-7, 10>>, Normalize(MinOf(zs), MaxOf(zs), zs[i])))
_zalpha(colors, zs) ==
    IF Len(colors) = 0 \/ Len(zs) = 0 THEN <<>>
    ELSE [i \in 1 .. Len(zs) |->
             <<Broadcast(colors, i)[1], Broadcast(colors, i)[2], Broadcast(colors, i)[3],
               RatMul(Broadcast(colors, i)[4], sats(zs, i))>>]

\* Path3DCollection._maybe_depth_shade_and_sort_colors, lines 838-846
\* (_alpha is None).
SortColors(c, color_array) ==
    IF Len(color_array) > 1 THEN TakeMarkers(color_array, c._z_markers_idx) ELSE color_array
_maybe_depth_shade_and_sort_colors(c, color_array) ==
    SortColors(c, IF c._vzs.some /\ c._depthshade
                  THEN _zalpha(color_array, Get(c._vzs))
                  ELSE color_array)

\* Path3DCollection.get_facecolor and get_edgecolor, lines 848-857.
get_facecolor(c) == _maybe_depth_shade_and_sort_colors(c, c._facecolors)
get_edgecolor(c) ==
    IF c._edgecolors.face THEN get_facecolor(c)
    ELSE _maybe_depth_shade_and_sort_colors(c, c._edgecolors.v)

\* Path3DCollection.set_3d_properties, lines 720-763, for the z of every
\* marker: x and y are those of the offsets as they are (after a projection,
\* the projected ones), and the caches take the sizes and linewidths as
\* they are (after a projection, the sorted ones).
set_3d_properties(c, zs, zdir) ==
    [c EXCEPT
       !._offsets3d = [i \in 1 .. Len(c._offsets) |->
                          juggle_axes(<<c._offsets[i][1], c._offsets[i][2], zs[i]>>, zdir)],
       !._sizes3d = c._sizes,
       !._linewidths3d = c._linewidths,
       !._z_markers_idx = [slice |-> TRUE, idx |-> <<>>],
       !._vzs = Nothing]

\* An attribute the object does not have.
Unset == [some |-> FALSE, v |-> <<>>, unset |-> TRUE]

\* The 2D PathCollection the 3D one starts from, for a = [offsets, sizes,
\* linewidths, facecolors, edgecolors]: it has none of the 3D attributes.
PathCollection(a) ==
    [kind |-> "PathCollection",
     _offsets |-> a.offsets, _sizes |-> a.sizes, _linewidths |-> a.linewidths,
     _facecolors |-> a.facecolors, _edgecolors |-> a.edgecolors,
     _depthshade |-> Unset, _in_draw |-> Unset,
     _offsets3d |-> Unset, _sizes3d |-> Unset, _linewidths3d |-> Unset,
     _z_markers_idx |-> Unset, _vzs |-> Unset,
     _offset_zordered |-> Unset, _sort_zpos |-> Unset]

\* Lines 705-707 and 880-883: the class, _depthshade and _in_draw are set
\* and set_3d_properties is called.
To3d(c, zs, zdir, depthshade) ==
    set_3d_properties([c EXCEPT !.kind = "Path3DCollection",
                                !._depthshade = depthshade, !._in_draw = FALSE],
                      zs, zdir)

\* Path3DCollection.__init__, lines 689-708, for a = [offsets, zs, zdir,
\* depthshade, sizes, linewidths, facecolors, edgecolors].
Path3DCollection(a) ==
    [To3d(PathCollection(a), a.zs, a.zdir, a.depthshade) EXCEPT !._offset_zordered = Nothing]

\* patch_collection_2d_to_3d, lines 860-883, for a PathCollection c:
\* _offset_zordered is not set.
patch_collection_2d_to_3d(c, zs, zdir, depthshade) == To3d(c, zs, zdir, depthshade)

SetSizesCachesInDraw(c, sizes) == [c EXCEPT !._sizes = sizes, !._sizes3d = sizes]

\* Path3DCollection.set_sizes, lines 765-768.
set_sizes(c, sizes) ==
    IF ~c._in_draw THEN [c EXCEPT !._sizes = sizes, !._sizes3d = sizes]
    ELSE [c EXCEPT !._sizes = sizes]

\* Path3DCollection.set_linewidth, lines 770-773.
set_linewidth(c, lw) ==
    IF ~c._in_draw THEN [c EXCEPT !._linewidths = lw, !._linewidths3d = lw]
    ELSE [c EXCEPT !._linewidths = lw]

\* Path3DCollection.set_depthshade, lines 778-789.
set_depthshade(c, depthshade) == [c EXCEPT !._depthshade = depthshade]

\* Path3DCollection.do_3d_projection, lines 791-822, for the projected
\* markers vs and the index array zidx; _sort_zpos is not read.
PathProjected(c, vs, zidx) ==
    [col |-> [c EXCEPT
                !._z_markers_idx = [slice |-> FALSE, idx |-> zidx],
                !._vzs = Some([i \in 1 .. Len(vs) |-> vs[i][3]]),
                !._sizes = IF Len(c._sizes3d) > 1 THEN Take(c._sizes3d, zidx) ELSE c._sizes,
                !._linewidths =
                    IF Len(c._linewidths3d) > 1 THEN Take(c._linewidths3d, zidx)
                    ELSE c._linewidths,
                !._offsets = column_stack(vs),
                !._offset_zordered = Some(Take(column_stack(vs), zidx))],
     ret |-> IF Len(vs) > 0 THEN MinZ(vs) ELSE NaN,
     idxs |-> zidx,
     raised |-> "none"]

path_do_3d_projection(c, M) ==
    PathProjected(c, ProjectAll(c._offsets3d, M),
                  z_markers_idx([i \in 1 .. Len(c._offsets3d) |->
                                    _proj_transform_vec(c._offsets3d[i], M)[3]]))

\* What the base class's draw hands to the renderer: the offsets, and per
\* marker the size, the linewidth, the face colour and the edge colour.
DrawnArrays(c) ==
    [offsets |-> c._offsets, sizes |-> c._sizes, linewidths |-> c._linewidths,
     facecolors |-> get_facecolor(c), edgecolors |-> get_edgecolor(c)]

\* Path3DCollection._use_zordered_offset entered, lines 824-832, and
\* _in_draw set, line 712.
EnterDraw(c) ==
    [c EXCEPT !._in_draw = TRUE,
              !._offsets = IF c._offset_zordered.some THEN Get(c._offset_zordered)
                           ELSE c._offsets]

\* The base class's draw: self.set_sizes(self._sizes, dpi), then the arrays
\* go to the renderer.
BaseDraw(c) == set_sizes(c, c._sizes)

LeaveDrawKeepsSwap(c, c0) == [c EXCEPT !._in_draw = c0._in_draw]

\* The context managers left, lines 833-836 and 712: _offsets and _in_draw
\* are what they were in c0.
LeaveDraw(c, c0) == [c EXCEPT !._in_draw = c0._in_draw, !._offsets = c0._offsets]

\* _use_zordered_offset reads self._offset_zordered, line 826: a collection
\* without the attribute raises AttributeError there.
HasOffsetZordered(c) == c._offset_zordered # Unset

\* Path3DCollection.draw, lines 710-713, on a collection that has
\* _offset_zordered.
draw(c) ==
    [col |-> LeaveDraw(BaseDraw(EnterDraw(c)), c), drawn |-> DrawnArrays(BaseDraw(EnterDraw(c)))]

\* Path3DCollection.draw when the base class's draw raises in the renderer:
\* both context managers are left through their finally clauses, and nothing
\* has been drawn.
draw_raises(c) ==
    [col |-> LeaveDraw(BaseDraw(EnterDraw(c)), c), raised |-> "RuntimeError"]

\* Path3DCollection.draw on a collection without _offset_zordered: line 826
\* raises before anything is set.
draw_unset(c) == [col |-> c, raised |-> "AttributeError"]

(***************************************************************************)
(* The getters of the colours after the setters (runs of SpecPoly).        *)
(***************************************************************************)
\* The colours of the array a.
ColoursOf(a) == {a[k] : k \in 1 .. Len(a)}

\* C29: on a Poly3DCollection that has been projected, a get_facecolor that
\* follows a set_facecolor, and a get_edgecolor that follows a
\* set_edgecolor, returns colours derived from the new setting, never the
\* colours an earlier projection cached; and a getter called before any
\* projection runs a projection first.
C29_GettersFollowSetters ==
    /\ (pc = "ready" /\ last.call \in {"get_facecolor", "get_edgecolor"}) => col.projected
    /\ (pc = "ready" /\ last.call = "get_facecolor" /\ last.prev = "set_facecolor") =>
          ColoursOf(result.ret) \subseteq ColoursOf(col._facecolor3d)
    /\ (pc = "ready" /\ last.call = "get_edgecolor" /\ last.prev = "set_edgecolor") =>
          ColoursOf(result.ret) \subseteq
              IF col._edgecolor3d = <<>> THEN ColoursOf(col._facecolor3d)
              ELSE ColoursOf(col._edgecolor3d)

(***************************************************************************)
(* Path3DCollection runs: construction, or conversion of a PathCollection  *)
(* by patch_collection_2d_to_3d, then the public methods in any            *)
(* order: do_3d_projection under changing views, draw, and the setters     *)
(* set_sort_zpos, set_sizes, set_linewidth, set_depthshade and             *)
(* set_3d_properties.                                                      *)
(***************************************************************************)
MarkerPoints == {<<0, 1, 0>>, <<1, 0, 1>>}
MarkerLists == UNION {[1 .. n -> MarkerPoints] : n \in 0 .. MaxMarkers}

\* One value for all markers, or one value per marker.
OneOrEach(each, n, Value(_)) == IF each THEN [i \in 1 .. n |-> Value(i)] ELSE <<Value(1)>>
SizeOf(i) == 10 * i
WidthOf(i) == i
\* The sizes and the linewidths the setters are called with.
NewSizeOf(i) == IF i = 1 THEN 30 ELSE 10 * (i - 1)
NewWidthOf(i) == IF i = 1 THEN 3 ELSE i - 1

\* The arguments of the constructor: the arrays hold one value each, or one
\* value per marker each, the edge colours being 'face' or an array.
PathArgs ==
    UNION {[points : {ps}, zdir : {"z", "x"}, depthshade : BOOLEAN,
            sizes : {OneOrEach(each, Len(ps), SizeOf)},
            linewidths : {OneOrEach(each, Len(ps), WidthOf)},
            facecolors : {OneOrEach(each, Len(ps), FaceColour)},
            edgecolors : {[face |-> FALSE, v |-> OneOrEach(each, Len(ps), EdgeColour)]}
                         \cup (IF each THEN {[face |-> TRUE, v |-> <<>>]} ELSE {})]
           : <<ps, each>> \in MarkerLists \X BOOLEAN}

\* The constructor's arguments offsets and zs for the markers at ps.
ConstructorArgs(a) ==
    [offsets |-> [i \in 1 .. Len(a.points) |-> <<a.points[i][1], a.points[i][2]>>],
     zs |-> [i \in 1 .. Len(a.points) |-> a.points[i][3]],
     zdir |-> a.zdir, depthshade |-> a.depthshade, sizes |-> a.sizes,
     linewidths |-> a.linewidths, facecolors |-> a.facecolors, edgecolors |-> a.edgecolors]

InitPath ==
    /\ args \in PathArgs
    /\ col = None /\ drawn = None
    /\ pc = "new"
    /\ exc = "none"
    /\ last = NoCall
    /\ result = None
    /\ inp = None /\ gen = None
    /\ _mask = None /\ _traj = <<>> /\ _current_xy = None
    /\ seed = None /\ it = None /\ fwd = None /\ trajectories = <<>>
    /\ maskAtStart = None
    /\ owner = None /\ trajId = 0
    /\ NoGen
    /\ grid = None /\ probe = None

ConstructPath ==
    /\ pc = "new"
    /\ Constructed3d([raised |-> "none", col |-> Path3DCollection(ConstructorArgs(args))])
    /\ UNCHANGED <<args, drawn, result, streamplotVars>>

\* patch_collection_2d_to_3d made a PathCollection with the same markers a
\* Path3DCollection.
ConvertPath ==
    /\ pc = "new"
    /\ col' = patch_collection_2d_to_3d(PathCollection(ConstructorArgs(args)),
                                         ConstructorArgs(args).zs, args.zdir, args.depthshade)
    /\ exc' = "none"
    /\ pc' = "ready"
    /\ last' = [NoCall EXCEPT !.call = "patch_collection_2d_to_3d"]
    /\ UNCHANGED <<args, drawn, result, streamplotVars>>

ProjectPath ==
    /\ pc = "ready"
    /\ \E M \in Views : Projected3d(path_do_3d_projection(col, M), M)
    /\ drawn' = None
    /\ UNCHANGED <<args, streamplotVars>>

\* draw returned: d is its outcome.
Drawn(d) ==
    /\ col' = d.col
    /\ drawn' = d.drawn
    /\ last' = [last EXCEPT !.call = "draw"]
    /\ result' = None

DrawPath ==
    /\ pc = "ready"
    /\ HasOffsetZordered(col)
    /\ Drawn(draw(col))
    /\ UNCHANGED <<args, pc, exc, streamplotVars>>

\* draw was left by an exception: d is its outcome.
DrawRaised(d) ==
    /\ col' = d.col
    /\ exc' = d.raised
    /\ pc' = "raised"
    /\ last' = [last EXCEPT !.call = "draw"]
    /\ result' = None
    /\ drawn' = None
    /\ UNCHANGED <<args, streamplotVars>>

\* draw was left by the exception the base class's draw raised.
DrawPathRaises ==
    /\ pc = "ready"
    /\ HasOffsetZordered(col)
    /\ DrawRaised(draw_raises(col))

\* draw was left by the AttributeError of a collection that was converted
\* and has not been projected.
DrawPathUnset ==
    /\ pc = "ready"
    /\ ~HasOffsetZordered(col)
    /\ DrawRaised(draw_unset(col))

\* The setter called name returned, leaving the collection c; the log
\* keeps the view of the latest projection.
PathSetterReturned(name, c) ==
    /\ last.setters < MaxSetterCalls
    /\ col' = c
    /\ last' = [last EXCEPT !.call = name, !.setters = last.setters + 1]
    /\ result' = None
    /\ drawn' = None
    /\ UNCHANGED <<args, pc, exc, streamplotVars>>

SetSortZposPath ==
    /\ pc = "ready"
    /\ \E val \in ZPositions : PathSetterReturned("set_sort_zpos", set_sort_zpos(col, val))

\* set_sizes and set_linewidth called by the user, outside draw, with one
\* value per marker.
SetSizes ==
    /\ pc = "ready"
    /\ PathSetterReturned("set_sizes",
                          set_sizes(col, [i \in 1 .. Len(col._offsets3d) |-> NewSizeOf(i)]))

SetLinewidth ==
    /\ pc = "ready"
    /\ PathSetterReturned("set_linewidth",
                          set_linewidth(col, [i \in 1 .. Len(col._offsets3d) |-> NewWidthOf(i)]))

SetDepthshade ==
    /\ pc = "ready"
    /\ \E depthshade \in BOOLEAN :
          PathSetterReturned("set_depthshade", set_depthshade(col, depthshade))

\* set_3d_properties(0, 'z') called by the user: every marker goes to z = 0.
SetProperties3dPath ==
    /\ pc = "ready"
    /\ PathSetterReturned("set_3d_properties",
                          set_3d_properties(col, [i \in 1 .. Len(col._offsets) |-> 0], "z"))

NextPath ==
    \/ ConstructPath
    \/ ConvertPath
    \/ ProjectPath
    \/ DrawPath
    \/ DrawPathRaises
    \/ DrawPathUnset
    \/ SetSortZposPath
    \/ SetSizes
    \/ SetLinewidth
    \/ SetDepthshade
    \/ SetProperties3dPath

SpecPath == InitPath /\ [][NextPath]_vars

\* A projection has set the depth-sort permutation of the markers.
HasProjected == pc = "ready" /\ ~col._z_markers_idx.slice

\* The run has called do_3d_projection and draw only: no setter.
OnlyProjectedAndDrawn == last.setters = 0

\* The markers as given to the constructor, and their projection under the
\* view of the latest do_3d_projection.
Markers3d == [i \in 1 .. Len(args.points) |-> juggle_axes(args.points[i], args.zdir)]
MarkersProjected == ProjectAll(Markers3d, last.M)

\* The per-marker array a re-ordered by the permutation of the latest
\* projection; an array of one value stands for every marker.
Reordered(a) == IF Len(a) > 1 THEN Take(a, col._z_markers_idx.idx) ELSE a

\* The colours as given, with the depth shading of every marker's alpha when
\* depthshade is set.
DepthShaded(colours) ==
    IF args.depthshade
    THEN _zalpha(colours, [i \in 1 .. Len(MarkersProjected) |-> MarkersProjected[i][3]])
    ELSE colours
FaceExpected == Reordered(DepthShaded(args.facecolors))
EdgeExpected ==
    IF args.edgecolors.face THEN FaceExpected ELSE Reordered(DepthShaded(args.edgecolors.v))

\* The conjuncts on the arrays other than the colours: the permutation is
\* one of all markers, sizes, linewidths and the offsets for drawing are the
\* original values re-ordered by it, and the caches hold the original,
\* unsorted values.
SizesWidthsOffsetsReordered ==
    /\ {col._z_markers_idx.idx[k] : k \in 1 .. Len(col._z_markers_idx.idx)}
           = 0 .. Len(args.points) - 1
    /\ Len(col._z_markers_idx.idx) = Len(args.points)
    /\ col._sizes = Reordered(args.sizes)
    /\ col._linewidths = Reordered(args.linewidths)
    /\ col._sizes3d = args.sizes
    /\ col._linewidths3d = args.linewidths
    /\ Get(col._offset_zordered) = Take(column_stack(MarkersProjected), col._z_markers_idx.idx)

\* What draw hands to the renderer when the colours are fc and ec.
DrawnExpected(fc, ec) ==
    [offsets |-> Take(column_stack(MarkersProjected), col._z_markers_idx.idx),
     sizes |-> Reordered(args.sizes),
     linewidths |-> Reordered(args.linewidths),
     facecolors |-> fc,
     edgecolors |-> ec]

MarkerDepth(i) == _proj_transform_vec(col._offsets3d[i], last.M)[3]

\* Marker a is drawn before marker b: it is farther, or as far and earlier
\* in the input.
DrawnBefore(a, b) ==
    \/ MarkerDepth(a) > MarkerDepth(b)
    \/ MarkerDepth(a) = MarkerDepth(b) /\ a < b

\* C30: a Path3DCollection holding N > 1 per-marker colours returns exactly
\* N colours from get_facecolor and get_edgecolor in every state: in the
\* original order after construction and before the first projection, and
\* one per marker after any number of projections.
C30_OneColourPerMarker ==
    pc = "ready" =>
        /\ Len(args.facecolors) > 1 =>
              /\ Len(get_facecolor(col)) = Len(args.facecolors)
              /\ ~HasProjected => get_facecolor(col) = args.facecolors
        /\ (~args.edgecolors.face /\ Len(args.edgecolors.v) > 1) =>
              /\ Len(get_edgecolor(col)) = Len(args.edgecolors.v)
              /\ ~HasProjected => get_edgecolor(col) = args.edgecolors.v

\* This step is a call of draw, which returns or raises.
DrawCalled == pc = "ready" /\ last'.call = "draw"

\* The offsets the base draw works with: the depth-ordered ones when a
\* projection has produced them, else _offsets as it is.
OffsetsForDraw ==
    IF col._offset_zordered.some THEN Get(col._offset_zordered) ELSE col._offsets

\* C24: Path3DCollection.draw swaps in the depth-ordered offsets only for
\* the duration of the base draw: when draw returns, and when the base draw
\* raises, _offsets is what it was before draw started and _in_draw is False
\* again; without depth-ordered offsets (none produced yet, or, on a
\* converted collection, no such attribute and an AttributeError), draw does
\* not touch _offsets.
C24_DrawRestoresOffsets ==
    [][DrawCalled =>
          /\ col'._offsets = col._offsets
          /\ col'._in_draw = FALSE
          /\ col'._offset_zordered = col._offset_zordered
          /\ exc' = "none" => drawn'.offsets = OffsetsForDraw
          /\ ~col._offset_zordered.some => col' = col]_vars

\* draw was left by an exception after a projection whose depth-ordered
\* offsets differ from _offsets.
C24_Witness ==
    /\ pc = "raised"
    /\ last.call = "draw"
    /\ col._offset_zordered.some
    /\ Get(col._offset_zordered) # col._offsets
    /\ ~col._in_draw

\* C22: Path3DCollection.do_3d_projection orders the markers by descending
\* projected depth, farthest first, and markers of equal projected depth
\* keep their input order.
C22_MarkersFarthestFirstStable ==
    (HasProjected /\ last.call = "do_3d_projection") =>
        \A k \in 1 .. Len(last.idxs) - 1 :
            DrawnBefore(last.idxs[k] + 1, last.idxs[k + 1] + 1)

(***************************************************************************)
(* _shade_colors runs: one call on a batch of normals, a light direction   *)
(* and one colour or one colour per normal.                                *)
(***************************************************************************)
\* Unit light directions with rational components (the first is the default
\* light source's), and normals of integer length: for every light a
\* parallel and an antiparallel one, others in between, and the zero normal
\* of a degenerate polygon.
LightDirections ==
    {DefaultLight, <<<<0, 1>>, <<0, 1>>, <<1, 1>>>>, <<<<3, 5>>, <<4, 5>>, <<0, 1>>>>}
ShadeNormals ==
    {<<-2, -2, 1>>, <<2, 2, -1>>, <<0, 0, 2>>, <<0, 0, -1>>, <<3, 4, 0>>, <<-3, -4, 0>>,
     <<1, 0, 0>>, <<1, 2, 2>>, <<0, 0, 0>>}
NormalLists == UNION {[1 .. n -> ShadeNormals] : n \in 1 .. MaxNormals}

ShadeArgs ==
    UNION {[normals : {ns}, direction : LightDirections,
            color : {OneOrEach(each, Len(ns), FaceColour) : each \in BOOLEAN}]
           : ns \in NormalLists}

InitShade ==
    /\ args \in ShadeArgs
    /\ col = None /\ drawn = None
    /\ pc = "new"
    /\ exc = "none"
    /\ last = NoCall
    /\ result = None
    /\ inp = None /\ gen = None
    /\ _mask = None /\ _traj = <<>> /\ _current_xy = None
    /\ seed = None /\ it = None /\ fwd = None /\ trajectories = <<>>
    /\ maskAtStart = None
    /\ owner = None /\ trajId = 0
    /\ NoGen
    /\ grid = None /\ probe = None

ShadeColors ==
    /\ pc = "new"
    /\ result' = [colors |-> _shade_colors(args.color, args.normals, args.direction)]
    /\ pc' = "done"
    /\ last' = [NoCall EXCEPT !.call = "_shade_colors"]
    /\ UNCHANGED <<args, col, drawn, exc, streamplotVars>>

NextShade == ShadeColors

SpecShade == InitShade /\ [][NextShade]_vars

\* Normal i of the batch is not the zero vector.
NonDegenerate(i) == args.normals[i] # <<0, 0, 0>>

\* The dot product of normal i with the light direction, times the normal's
\* length: a rational.
DotWithLight(i) ==
    RatAdd(RatAdd(RatMulInt(args.direction[1], args.normals[i][1]),
                  RatMulInt(args.direction[2], args.normals[i][2])),
           RatMulInt(args.direction[3], args.normals[i][3]))
LengthOf(i) == Norm(args.normals[i])

\* The brightness fraction the claim gives normal i: 0.65 + 0.35 cos, for
\* cos the cosine of the angle between the normal and the light.
Brightness(i) == RatAdd(<<13, 20>>, RatMul(<<7, 20>>, RatMul(DotWithLight(i), <<1, LengthOf(i)>>)))

\* Normal i is parallel (sign 1) or antiparallel (sign -1) to the unit
\* light direction: their dot product is sign times the normal's length.
Aligned(i, sign) == DotWithLight(i) = <<sign * LengthOf(i), 1>>

\* C14: for every non-degenerate normal, _shade_colors multiplies the RGB
\* channels by a brightness fraction in [0.3, 1.0] that is linear in the dot
\* product (0.3 when antiparallel to the light, 1.0 when parallel), and the
\* alpha of every colour is unchanged.
C14_ShadeWithinBounds ==
    pc = "done" =>
        /\ \A i \in 1 .. Len(result.colors) :
              result.colors[i][4] = Broadcast(args.color, i)[4]
        /\ \A i \in 1 .. Len(args.normals) :
              NonDegenerate(i) =>
                 /\ i <= Len(result.colors)
                 /\ \A ch \in 1 .. 3 :
                       result.colors[i][ch] = RatMul(Brightness(i), Broadcast(args.color, i)[ch])
                 /\ RatLeq(<<3, 10>>, Brightness(i)) /\ RatLeq(Brightness(i), <<1, 1>>)
                 /\ Aligned(i, -1) => Brightness(i) = <<3, 10>>
                 /\ Aligned(i, 1) => Brightness(i) = <<1, 1>>

\* A batch with a normal parallel to the light and one antiparallel to it
\* was shaded, the colours having alpha 1 and 1/2.
C14_Witness ==
    /\ pc = "done"
    /\ Len(args.normals) = 2 /\ Len(args.color) = 2
    /\ Aligned(1, 1) /\ Aligned(2, -1)
    /\ result.colors[1][1] = args.color[1][1]
    /\ result.colors[2][1] = RatMul(<<3, 10>>, args.color[2][1])
    /\ result.colors[2][4] = <<1, 2>>

\* The darkest shade _shade_colors gives: norm(-1), the brightness of a
\* normal that points away from the light.
Darkest == norm(<<-1, 1>>)

\* C23: a polygon whose normal is degenerate is shaded with the darkest
\* brightness, so that it is at most as bright as every polygon of the batch
\* with a valid normal, whether some or all normals of the batch are
\* degenerate.
C23_DegenerateShadedDarkest ==
    pc = "done" =>
        \A i \in 1 .. Len(args.normals) :
            ~NonDegenerate(i) =>
                /\ i <= Len(result.colors)
                /\ \A ch \in 1 .. 3 :
                      result.colors[i][ch] = RatMul(Darkest, Broadcast(args.color, i)[ch])
                /\ \A j \in 1 .. Len(args.normals) :
                      NonDegenerate(j) =>
                          \A ch \in 1 .. 3 : RatLeq(result.colors[i][ch],
                                                    RatMul(Brightness(j), Broadcast(args.color, i)[ch]))

\* C15: constructing a Poly3DCollection with shade=True succeeds when
\* facecolors, edgecolors or both are given, and raises ValueError, and
\* nothing else, when neither is given.
C15_ShadeNeedsAColour ==
    (last.call = "__init__" /\ args.shade) =>
        IF args.facecolors.some \/ args.edgecolors.some
        THEN exc = "none" /\ pc = "ready"
        ELSE exc = "ValueError" /\ pc = "raised"

\* C16: once set_sort_zpos(v) has been called on a 3D collection, every
\* later do_3d_projection returns the projected depth of z-position v, not
\* the minimum projected vertex depth.  Stated for the Path3DCollection.
C16_SortZposOverridesDepth ==
    (last.call = "do_3d_projection" /\ col._sort_zpos.some) =>
        result.ret = _proj_transform_vec(<<0, 0, Get(col._sort_zpos)>>, last.M)[3]

(***************************************************************************)
(* Bar3DCollection: rectangular prisms of six faces each, drawn under a    *)
(* camera at azimuth ax.azim and elevation ax.elev (integer degrees).      *)
(***************************************************************************)
\* CUBOID, lines 34-78: the unit cube's faces -x, -y, +x, +y, -z, +z.
CUBOID ==
    <<<<<<0, 0, 0>>, <<0, 0, 1>>, <<0, 1, 1>>, <<0, 1, 0>>>>,
      <<<<0, 0, 0>>, <<1, 0, 0>>, <<1, 0, 1>>, <<0, 0, 1>>>>,
      <<<<1, 0, 0>>, <<1, 1, 0>>, <<1, 1, 1>>, <<1, 0, 1>>>>,
      <<<<0, 1, 0>>, <<0, 1, 1>>, <<1, 1, 1>>, <<1, 1, 0>>>>,
      <<<<0, 0, 0>>, <<0, 1, 0>>, <<1, 1, 0>>, <<1, 0, 0>>>>,
      <<<<0, 0, 1>>, <<1, 0, 1>>, <<1, 1, 1>>, <<0, 1, 1>>>>>>

_n_faces == 6

\* Bar3DCollection._compute_verts, lines 1280-1293: per bar its six faces,
\* bar after bar.
_compute_verts(c) ==
    [k \in 1 .. Len(c._xyz) * _n_faces |->
        [v \in 1 .. 4 |->
            <<c._xyz[((k - 1) \div _n_faces) + 1][1]
                  + c.dx * CUBOID[((k - 1) % _n_faces) + 1][v][1],
              c._xyz[((k - 1) \div _n_faces) + 1][2]
                  + c.dy * CUBOID[((k - 1) % _n_faces) + 1][v][2],
              c.z0 + (c._xyz[((k - 1) \div _n_faces) + 1][3] - c.z0)
                        * CUBOID[((k - 1) % _n_faces) + 1][v][3]>>]]

\* The sign of np.cos and of np.sin at np.radians(a), a a whole number of
\* degrees with |a| <= 720.  The double nearest pi is below pi, so the
\* double np.radians gives lies towards 0 from a whole number of quarter
\* turns, and the functions are not 0 where the exact ones are: cos is
\* 6.1e-17 at 90 and at -90 and -1.8e-16 at 270, sin is 1.2e-16 at 180 and
\* -2.4e-16 at 360; sin is 0 at 0 only.
SignCos(a) == IF (Abs(a) % 360) <= 90 \/ (Abs(a) % 360) > 270 THEN 1 ELSE -1
SignSin(a) ==
    IF a = 0 THEN 0
    ELSE IF (Abs(a) % 360) \in 1 .. 180 THEN Sign(a) ELSE -Sign(a)
\* The square of the exact cos for a multiple of 30 or of 45 degrees.
Cos2(a) ==
    IF (a % 180) = 0 THEN <<1, 1>>
    ELSE IF (a % 180) \in {30, 150} THEN <<3, 4>>
    ELSE IF (a % 180) \in {45, 135} THEN <<1, 2>>
    ELSE IF (a % 180) \in {60, 120} THEN <<1, 4>>
    ELSE <<0, 1>>
Sin2(a) == Cos2(a - 90)

\* _camera_position, lines 1599-1606: r is the sum of the squares of the
\* upper x and y limits, theta = 90 - elev, phi = azim.
CameraR(ax) == ax.xmax * ax.xmax + ax.ymax * ax.ymax

\* sph2cart of the camera position, lines 1591-1596: the sign of each
\* coordinate, r being positive.
CameraSigns(ax) ==
    <<SignSin(90 - ax.elev) * SignCos(ax.azim),
      SignSin(90 - ax.elev) * SignSin(ax.azim),
      SignCos(90 - ax.elev)>>

\* An integer a against sign * sqrt(sq), sq a rational: a > sign * sqrt(sq).
GreaterThanSurd(a, sign, sq) ==
    \/ sign < 0 /\ (a >= 0 \/ a * a * sq[2] < sq[1])
    \/ sign = 0 /\ a > 0
    \/ sign > 0 /\ a > 0 /\ a * a * sq[2] > sq[1]

(***************************************************************************)
(* Doubles, for the camera distances that exact arithmetic does not tell   *)
(* apart: neg, the mantissa m and the exponent e of (-1)^neg * m * 2^e.    *)
(* A mantissa is written in digits to the base 2^13, least significant     *)
(* first, no leading zero.  An operation rounds its exact result to 53     *)
(* binary digits, to the nearest double and at a tie to the even one.      *)
(***************************************************************************)
RECURSIVE LimbsOf(_)
LimbsOf(n) == IF n = 0 THEN <<>> ELSE <<n % 8192>> \o LimbsOf(n \div 8192)

RECURSIVE Trim(_)
Trim(n) ==
    IF Len(n) = 0 THEN <<>>
    ELSE IF n[Len(n)] = 0 THEN Trim(SubSeq(n, 1, Len(n) - 1))
    ELSE n

\* n * 8192^q.
ShiftLimbs(n, q) == IF n = <<>> THEN <<>> ELSE [i \in 1 .. q |-> 0] \o n

\* n * k + carry for 0 < k <= 8192.
RECURSIVE LimbsTimesInt(_, _, _)
LimbsTimesInt(n, k, carry) ==
    IF n = <<>> THEN LimbsOf(carry)
    ELSE <<(Head(n) * k + carry) % 8192>>
         \o LimbsTimesInt(Tail(n), k, (Head(n) * k + carry) \div 8192)

RECURSIVE LimbsPlus(_, _, _)
LimbsPlus(a, b, carry) ==
    IF a = <<>> /\ b = <<>> THEN LimbsOf(carry)
    ELSE LET d == (IF a = <<>> THEN 0 ELSE Head(a)) + (IF b = <<>> THEN 0 ELSE Head(b)) + carry
         IN  <<d % 8192>> \o LimbsPlus(IF a = <<>> THEN a ELSE Tail(a),
                                       IF b = <<>> THEN b ELSE Tail(b), d \div 8192)

\* a - b - borrow for a >= b + borrow, with leading zeros.
RECURSIVE LimbsLess(_, _, _)
LimbsLess(a, b, borrow) ==
    IF a = <<>> THEN <<>>
    ELSE LET d == Head(a) - (IF b = <<>> THEN 0 ELSE Head(b)) - borrow
         IN  <<d % 8192>> \o LimbsLess(Tail(a), IF b = <<>> THEN b ELSE Tail(b),
                                       IF d < 0 THEN 1 ELSE 0)
LimbsMinus(a, b) == Trim(LimbsLess(a, b, 0))

RECURSIVE LimbsLeq(_, _)
LimbsLeq(a, b) ==
    IF Len(a) # Len(b) THEN Len(a) < Len(b)
    ELSE IF a = <<>> THEN TRUE
    ELSE IF a[Len(a)] # b[Len(b)] THEN a[Len(a)] < b[Len(b)]
    ELSE LimbsLeq(SubSeq(a, 1, Len(a) - 1), SubSeq(b, 1, Len(b) - 1))

RECURSIVE LimbsTimes(_, _)
LimbsTimes(a, b) ==
    IF a = <<>> \/ b = <<>> THEN <<>>
    ELSE LimbsPlus(IF Head(b) = 0 THEN <<>> ELSE LimbsTimesInt(a, Head(b), 0),
                   ShiftLimbs(LimbsTimes(a, Tail(b)), 1), 0)

\* The number of binary digits of n.
DigitsIn(k) == CHOOSE j \in 1 .. 13 : 2^(j - 1) <= k /\ k < 2^j
BitLen(n) == IF n = <<>> THEN 0 ELSE 13 * (Len(n) - 1) + DigitsIn(n[Len(n)])

\* Binary digit j of n, counted from 0, and whether a digit below j is 1.
Bit(n, j) == IF (j \div 13) + 1 > Len(n) THEN 0 ELSE (n[(j \div 13) + 1] \div 2^(j % 13)) % 2
AnyBelow(n, j) ==
    \E i \in 1 .. Len(n) :
        \/ i - 1 < j \div 13 /\ n[i] # 0
        \/ i - 1 = j \div 13 /\ n[i] % 2^(j % 13) # 0

\* n * 2^s, and n \div 2^s.
ShiftLeft(n, s) == ShiftLimbs(LimbsTimesInt(n, 2^(s % 13), 0), s \div 13)
ShiftRight(n, s) ==
    Trim([i \in 1 .. Len(n) - (s \div 13) |->
             (n[i + (s \div 13)] \div 2^(s % 13))
             + (IF i + (s \div 13) < Len(n)
                THEN (n[i + (s \div 13) + 1] % 2^(s % 13)) * 2^(13 - (s % 13))
                ELSE 0)])

\* m * 2^e rounded to a double: s binary digits are dropped.
RoundedBy(neg, m, e, s) ==
    [neg |-> neg,
     m |-> IF Bit(m, s - 1) = 1 /\ (Bit(m, s) = 1 \/ AnyBelow(m, s - 1))
           THEN LimbsPlus(ShiftRight(m, s), <<1>>, 0)
           ELSE ShiftRight(m, s),
     e |-> e + s]
Rounded(neg, m, e) ==
    IF BitLen(m) <= 53 THEN [neg |-> neg, m |-> m, e |-> e]
    ELSE RoundedBy(neg, m, e, BitLen(m) - 53)

\* A whole number below 2^31 as a double.
DoubleOf(k) == [neg |-> k < 0, m |-> LimbsOf(Abs(k)), e |-> 0]

\* x * y.
DoubleTimes(x, y) == Rounded(x.neg # y.neg, LimbsTimes(x.m, y.m), x.e + y.e)

\* x + y and x - y: the mantissas at the smaller exponent, added or
\* subtracted.
SumAt(x, y, a, b, e) ==
    IF x.neg = y.neg THEN Rounded(x.neg, LimbsPlus(a, b, 0), e)
    ELSE IF LimbsLeq(b, a) THEN Rounded(x.neg, LimbsMinus(a, b), e)
    ELSE Rounded(y.neg, LimbsMinus(b, a), e)
DoublePlus(x, y) ==
    SumAt(x, y, ShiftLeft(x.m, x.e - Min(x.e, y.e)), ShiftLeft(y.m, y.e - Min(x.e, y.e)),
          Min(x.e, y.e))
DoubleMinus(x, y) == DoublePlus(x, [y EXCEPT !.neg = ~y.neg])

\* The whole part of the square root of n, digit by digit from the top: the
\* digits of res above digit i are set; d is digit i as far as its binary
\* digits above j are set.
RECURSIVE RootDigit(_, _, _, _, _)
RootDigit(n, res, i, d, j) ==
    IF j < 0 THEN d
    ELSE IF LimbsLeq(LimbsTimes(Trim([res EXCEPT ![i] = d + 2^j]),
                                Trim([res EXCEPT ![i] = d + 2^j])), n)
    THEN RootDigit(n, res, i, d + 2^j, j - 1)
    ELSE RootDigit(n, res, i, d, j - 1)
RECURSIVE Root(_, _, _)
Root(n, res, i) ==
    IF i = 0 THEN Trim(res)
    ELSE Root(n, [res EXCEPT ![i] = RootDigit(n, res, i, 0, 12)], i - 1)
isqrt(n) == Root(n, [i \in 1 .. (Len(n) + 1) \div 2 |-> 0], (Len(n) + 1) \div 2)

\* np.sqrt(x) for x > 0: the root of m * 2^k, k >= 56 with e - k even, has at
\* least 55 binary digits; a digit more says whether the root is not whole,
\* and the result is rounded.
RootRounded(n, root, e) ==
    Rounded(FALSE, LimbsTimesInt(root, 2, IF LimbsTimes(root, root) = n THEN 0 ELSE 1), e - 1)
SqrtShifted(n, e) == RootRounded(n, isqrt(n), e \div 2)
SqrtShift(x) == 109 - BitLen(x.m) + ((109 - BitLen(x.m) + x.e) % 2)
DoubleSqrt(x) ==
    IF x.m = <<>> THEN x
    ELSE SqrtShifted(ShiftLeft(x.m, SqrtShift(x)), x.e - SqrtShift(x))

\* x < y for doubles that are not negative.
DoubleLess(x, y) ==
    ~LimbsLeq(ShiftLeft(y.m, y.e - Min(x.e, y.e)), ShiftLeft(x.m, x.e - Min(x.e, y.e)))

\* np.sin and np.cos at np.radians(a), a a multiple of 30 or of 45 degrees
\* from -720 to 810: per row a, then sign (1 for negative), upper 26 and
\* lower 27 digits of the mantissa and exponent of the sine, then those of
\* the cosine.
TrigRows ==
    <<<<-720, 0, 37012678, 51665927, -103, 0, 33554432, 0, -52>>,
      <<-690, 0, 67108863, 134217726, -54, 0, 58117981, 5786795, -53>>,
      <<-675, 0, 47453132, 109001674, -53, 0, 47453132, 109001679, -53>>,
      <<-660, 0, 58117981, 5786799, -53, 0, 67108863, 134217712, -54>>,
      <<-630, 0, 33554432, 0, -52, 1, 64772187, 23306508, -104>>,
      <<-600, 0, 58117981, 5786795, -53, 1, 67108863, 134217725, -54>>,
      <<-585, 0, 47453132, 109001680, -53, 1, 47453132, 109001673, -53>>,
      <<-570, 0, 67108863, 134217713, -54, 1, 58117981, 5786799, -53>>,
      <<-540, 1, 55519017, 77498890, -104, 1, 33554432, 0, -52>>,
      <<-510, 1, 67108863, 134217724, -54, 1, 58117981, 5786796, -53>>,
      <<-495, 1, 47453132, 109001673, -53, 1, 47453132, 109001680, -53>>,
      <<-480, 1, 58117981, 5786799, -53, 1, 67108863, 134217714, -54>>,
      <<-450, 1, 33554432, 0, -52, 0, 46265847, 131691273, -104>>,
      <<-420, 1, 58117981, 5786796, -53, 0, 67108863, 134217723, -54>>,
      <<-405, 1, 47453132, 109001675, -53, 0, 47453132, 109001678, -53>>,
      <<-390, 1, 33554432, 0, -53, 0, 58117981, 5786794, -53>>,
      <<-360, 0, 37012678, 51665927, -104, 0, 33554432, 0, -52>>,
      <<-330, 0, 33554432, 4, -53, 0, 58117981, 5786792, -53>>,
      <<-315, 0, 47453132, 109001678, -53, 0, 47453132, 109001675, -53>>,
      <<-300, 0, 58117981, 5786794, -53, 0, 33554432, 1, -53>>,
      <<-270, 0, 33554432, 0, -52, 1, 55519017, 77498890, -105>>,
      <<-240, 0, 58117981, 5786792, -53, 1, 33554432, 4, -53>>,
      <<-225, 0, 47453132, 109001676, -53, 1, 47453132, 109001678, -53>>,
      <<-210, 0, 33554432, 1, -53, 1, 58117981, 5786794, -53>>,
      <<-180, 1, 37012678, 51665927, -105, 1, 33554432, 0, -52>>,
      <<-150, 1, 67108863, 134217727, -54, 1, 58117981, 5786795, -53>>,
      <<-135, 1, 47453132, 109001677, -53, 1, 47453132, 109001676, -53>>,
      <<-120, 1, 58117981, 5786795, -53, 1, 67108863, 134217724, -54>>,
      <<-90, 1, 33554432, 0, -52, 0, 37012678, 51665927, -106>>,
      <<-60, 1, 58117981, 5786794, -53, 0, 33554432, 1, -53>>,
      <<-45, 1, 47453132, 109001676, -53, 0, 47453132, 109001677, -53>>,
      <<-30, 1, 67108863, 134217727, -54, 0, 58117981, 5786795, -53>>,
      <<0, 0, 0, 0, 0, 0, 33554432, 0, -52>>,
      <<30, 0, 67108863, 134217727, -54, 0, 58117981, 5786795, -53>>,
      <<45, 0, 47453132, 109001676, -53, 0, 47453132, 109001677, -53>>,
      <<60, 0, 58117981, 5786794, -53, 0, 33554432, 1, -53>>,
      <<90, 0, 33554432, 0, -52, 0, 37012678, 51665927, -106>>,
      <<120, 0, 58117981, 5786795, -53, 1, 67108863, 134217724, -54>>,
      <<135, 0, 47453132, 109001677, -53, 1, 47453132, 109001676, -53>>,
      <<150, 0, 67108863, 134217727, -54, 1, 58117981, 5786795, -53>>,
      <<180, 0, 37012678, 51665927, -105, 1, 33554432, 0, -52>>,
      <<210, 1, 33554432, 1, -53, 1, 58117981, 5786794, -53>>,
      <<225, 1, 47453132, 109001676, -53, 1, 47453132, 109001678, -53>>,
      <<240, 1, 58117981, 5786792, -53, 1, 33554432, 4, -53>>,
      <<270, 1, 33554432, 0, -52, 1, 55519017, 77498890, -105>>,
      <<300, 1, 58117981, 5786794, -53, 0, 33554432, 1, -53>>,
      <<315, 1, 47453132, 109001678, -53, 0, 47453132, 109001675, -53>>,
      <<330, 1, 33554432, 4, -53, 0, 58117981, 5786792, -53>>,
      <<360, 1, 37012678, 51665927, -104, 0, 33554432, 0, -52>>,
      <<390, 0, 33554432, 0, -53, 0, 58117981, 5786794, -53>>,
      <<405, 0, 47453132, 109001675, -53, 0, 47453132, 109001678, -53>>,
      <<420, 0, 58117981, 5786796, -53, 0, 67108863, 134217723, -54>>,
      <<450, 0, 33554432, 0, -52, 0, 46265847, 131691273, -104>>,
      <<480, 0, 58117981, 5786799, -53, 1, 67108863, 134217714, -54>>,
      <<495, 0, 47453132, 109001673, -53, 1, 47453132, 109001680, -53>>,
      <<510, 0, 67108863, 134217724, -54, 1, 58117981, 5786796, -53>>,
      <<540, 0, 55519017, 77498890, -104, 1, 33554432, 0, -52>>,
      <<570, 1, 67108863, 134217713, -54, 1, 58117981, 5786799, -53>>,
      <<585, 1, 47453132, 109001680, -53, 1, 47453132, 109001673, -53>>,
      <<600, 1, 58117981, 5786795, -53, 1, 67108863, 134217725, -54>>,
      <<630, 1, 33554432, 0, -52, 1, 64772187, 23306508, -104>>,
      <<660, 1, 58117981, 5786799, -53, 0, 67108863, 134217712, -54>>,
      <<675, 1, 47453132, 109001674, -53, 0, 47453132, 109001679, -53>>,
      <<690, 1, 67108863, 134217726, -54, 0, 58117981, 5786795, -53>>,
      <<720, 1, 37012678, 51665927, -103, 0, 33554432, 0, -52>>,
      <<750, 0, 67108863, 134217711, -54, 0, 58117981, 5786799, -53>>,
      <<765, 0, 47453132, 109001679, -53, 0, 47453132, 109001674, -53>>,
      <<780, 0, 58117981, 5786795, -53, 0, 67108863, 134217727, -54>>,
      <<810, 0, 33554432, 0, -52, 0, 41639263, 24569736, -103>>>>
TrigRow(a) == TrigRows[CHOOSE i \in 1 .. Len(TrigRows) : TrigRows[i][1] = a]
TrigDouble(neg, hi, lo, e) ==
    [neg |-> neg = 1, m |-> LimbsPlus(LimbsOf(lo), ShiftLeft(LimbsOf(hi), 27), 0), e |-> e]
np_sin(a) == TrigDouble(TrigRow(a)[2], TrigRow(a)[3], TrigRow(a)[4], TrigRow(a)[5])
np_cos(a) == TrigDouble(TrigRow(a)[6], TrigRow(a)[7], TrigRow(a)[8], TrigRow(a)[9])

\* sph2cart, lines 1591-1596, for r a double and theta and phi in degrees.
sph2cart(r, theta, phi) ==
    <<DoubleTimes(DoubleTimes(r, np_sin(theta)), np_cos(phi)),
      DoubleTimes(DoubleTimes(r, np_sin(theta)), np_sin(phi)),
      DoubleTimes(r, np_cos(theta))>>

\* np.square(x), and the sum of three squares along axis 0.
DoubleSquare(x) == DoubleTimes(x, x)
SumOfSquares(dx, dy, dz) ==
    DoublePlus(DoublePlus(DoubleSquare(dx), DoubleSquare(dy)), DoubleSquare(dz))

\* camera_distance, lines 1581-1588, of a bar at p (z is 0) from the camera
\* at cam.
DistanceFrom(cam, p) ==
    DoubleSqrt(SumOfSquares(DoubleMinus(DoubleOf(p[1]), cam[1]),
                            DoubleMinus(DoubleOf(p[2]), cam[2]),
                            DoubleMinus(DoubleOf(0), cam[3])))
camera_distance(ax, p) ==
    DistanceFrom(sph2cart(DoubleOf(CameraR(ax)), 90 - ax.elev, ax.azim), p)

\* An integer a against sign * sqrt(sq): they are equal.
EqualsSurd(a, sign, sq) == a * a * sq[2] = sq[1] /\ (a = 0 \/ Sign(a) = sign)

\* camera_distance compared for two bars p and q that differ along axis k:
\* in exact arithmetic p is farther from the camera than q when
\* |p|^2 - |q|^2 > 2 (p - q) . camera, and the doubles are in that order
\* when the two sides differ; when they are equal the rounding decides.
FartherAlong(ax, p, q, k, trig2) ==
    IF EqualsSurd(p[1] * p[1] + p[2] * p[2] - q[1] * q[1] - q[2] * q[2],
                  Sign(p[k] - q[k]) * CameraSigns(ax)[k],
                  RatMulInt(trig2, 4 * CameraR(ax) * CameraR(ax) * (p[k] - q[k]) * (p[k] - q[k])))
    THEN DoubleLess(camera_distance(ax, q), camera_distance(ax, p))
    ELSE GreaterThanSurd(p[1] * p[1] + p[2] * p[2] - q[1] * q[1] - q[2] * q[2],
                         Sign(p[k] - q[k]) * CameraSigns(ax)[k],
                         RatMulInt(trig2, 4 * CameraR(ax) * CameraR(ax) * (p[k] - q[k]) * (p[k] - q[k])))
Farther(ax, p, q) ==
    IF p[2] = q[2]
    THEN FartherAlong(ax, p, q, 1, RatMul(Sin2(90 - ax.elev), Cos2(ax.azim)))
    ELSE FartherAlong(ax, p, q, 2, RatMul(Sin2(90 - ax.elev), Sin2(ax.azim)))

\* Lines 1382-1384 for one or two bars: the camera distances, scaled to
\* [0, 1] (all 0 when they are equal) and multiplied by the number of bars.
BarZorder(c, ax) ==
    [i \in 1 .. Len(c._xyz) |->
        IF \E j \in 1 .. Len(c._xyz) : j # i /\ Farther(ax, c._xyz[i], c._xyz[j])
        THEN Len(c._xyz) ELSE 0]

\* get_prism_face_zorder, lines 1627-1654: the panel sequence.
PrismBase(ax, nfaces) == IF ax.elev < 0 THEN nfaces + 1 ELSE nfaces
PrismTop(ax, nfaces) == IF ax.elev < 0 THEN nfaces ELSE nfaces + 1
PrismFlip(ax) == IF Abs(ax.elev) % 180 > 90 THEN 1 ELSE 0
\* sector * angle_step, in degrees.
PrismSector(ax) == (ax.azim + 45 + 180 * PrismFlip(ax)) % 360
PrismFirst(ax) == PrismSector(ax) \div 90
PrismSecond(ax, nfaces) ==
    IF PrismSector(ax) % 90 < 45 THEN (PrismFirst(ax) + nfaces - 1) % nfaces
    ELSE (PrismFirst(ax) + 1) % nfaces
PrismThird(ax, nfaces) ==
    IF PrismSector(ax) % 90 < 45 THEN (PrismFirst(ax) + 1) % nfaces
    ELSE (PrismFirst(ax) + nfaces - 1) % nfaces
\* np.setdiff1d(np.arange(nfaces), sequence): for four faces, the one left.
PrismRest(ax, nfaces) ==
    CHOOSE face \in 0 .. nfaces - 1 :
        face \notin {PrismFirst(ax), PrismSecond(ax, nfaces), PrismThird(ax, nfaces)}
PrismSequence(ax, nfaces) ==
    IF Abs(ax.elev) % 360 > 180
    THEN <<PrismTop(ax, nfaces), PrismRest(ax, nfaces), PrismThird(ax, nfaces),
           PrismSecond(ax, nfaces), PrismFirst(ax), PrismBase(ax, nfaces)>>
    ELSE <<PrismBase(ax, nfaces), PrismFirst(ax), PrismSecond(ax, nfaces),
           PrismThird(ax, nfaces), PrismRest(ax, nfaces), PrismTop(ax, nfaces)>>

\* get_prism_face_zorder, lines 1627-1675: per face its place in the
\* sequence over the number of faces, nan below 0.5 when mask_occluded.
FaceZorder(order, mask_occluded, nfaces) ==
    [face \in 1 .. nfaces + 2 |->
        [nan |-> mask_occluded /\ 2 * order[face] < nfaces + 2,
         v |-> <<order[face], nfaces + 2>>]]
get_prism_face_zorder(ax, mask_occluded, nfaces) ==
    FaceZorder(argsort(PrismSequence(ax, nfaces)), mask_occluded, nfaces)

\* Bar3DCollection._compute_zorder, lines 1380-1388: per face of every bar
\* the bar's zorder plus the face's, nan where the face's is.
FaceZorders(c, barz, facez) ==
    [k \in 1 .. Len(c._xyz) * _n_faces |->
        [nan |-> facez[((k - 1) % _n_faces) + 1].nan,
         v |-> RatAdd(<<barz[((k - 1) \div _n_faces) + 1], 1>>,
                      facez[((k - 1) % _n_faces) + 1].v)]]
_compute_zorder(c, ax) ==
    FaceZorders(c, BarZorder(c, ax),
                get_prism_face_zorder(ax, c._original_alpha = <<1, 1>>, _n_faces - 2))

\* Bar3DCollection._compute_colors, lines 1355-1378, for n polygons: the
\* face colours repeated, shaded and given the original alpha.
RowWithAlpha(row, alpha) == <<row[1], row[2], row[3], alpha>>
WithAlpha(colours, alpha) == [i \in 1 .. Len(colours) |-> RowWithAlpha(colours[i], alpha)]
BarFaceColors(c, n) ==
    IF Len(c._facecolor3d) = 1 \/ Len(c._facecolor3d) * _n_faces = n
    THEN WithAlpha(IF c._shade
                   THEN _shade_colors(Repeat(c._facecolor3d, n \div Len(c._facecolor3d)),
                                      _generate_normals(_compute_verts(c)), DefaultLight)
                   ELSE Repeat(c._facecolor3d, n \div Len(c._facecolor3d)),
                   c._original_alpha)
    ELSE c._facecolor3d
BarEdgeColors(c, n, cf) ==
    IF Len(c._edgecolor3d) # n
    THEN IF Len(c._edgecolor3d) = 0 THEN cf ELSE Repeat(c._edgecolor3d, n)
    ELSE c._edgecolor3d

\* Lines 1323-1329: the faces that are not occluded, with their key, colours
\* and index, sorted.
NotOccluded(zorder, item) == ~zorder[item.idx + 1].nan
Visible(items, zorder) == SelectSeq(items, LAMBDA item : NotOccluded(zorder, item))
bar_z_segments_2d(xyz, cf, ce, zorder) ==
    sorted_reverse(Visible([k \in 1 .. Min(Len(zorder), ZipLen(xyz, cf, ce)) |->
                               [key |-> zorder[k].v,
                                seg |-> column_stack(xyz[k]),
                                fc |-> cf[k], ec |-> ce[k], idx |-> k - 1]], zorder))

BarSorted(c, ax, xyz, cf) ==
    IF Len(cf) # Len(xyz)
    THEN [raised |-> "ValueError", col |-> c, ret |-> 0, idxs |-> <<>>]
    ELSE PolyProjected(c, ax.M, Len(xyz), Len(cf),
                       bar_z_segments_2d(xyz, cf, BarEdgeColors(c, Len(xyz), cf),
                                         _compute_zorder(c, ax)))

\* Line 1366: _shade_colors multiplies the n repeated colours by the shades
\* of the normals of the bars' faces; numpy raises ValueError when the two
\* lengths differ and neither is 1.
ShadeRaises(c, n) ==
    /\ c._shade
    /\ Len(c._facecolor3d) = 1 \/ Len(c._facecolor3d) * _n_faces = n
    /\ n \notin {1, Len(c._xyz) * _n_faces}

\* Lines 1313-1353 for the collection c, its colours mapped already.
BarProjection(c, ax) ==
    IF ShadeRaises(c, Len(c._segslices))
    THEN [raised |-> "ValueError", col |-> c, ret |-> 0, idxs |-> <<>>]
    ELSE BarSorted(c, ax, xyzlist(c, ax.M), BarFaceColors(c, Len(xyzlist(c, ax.M))))

\* Bar3DCollection.do_3d_projection, lines 1295-1353, on the axes ax.
bar_do_3d_projection(c, ax) == BarProjection(color_mapped(c), ax)

\* Bar3DCollection.set_z0, lines 1246-1248, and lines 1264-1265 of
\* set_data: the faces are computed again and handed to
\* Poly3DCollection.set_verts.
bar_set_verts(c) == set_verts(c, _compute_verts(c), TRUE)
set_z0(c, z0) == bar_set_verts([c EXCEPT !.z0 = z0])

\* Lines 1257-1262 of set_data: the coordinates that are given (x, y, z and
\* z0 are optional) replace the stored ones.
WithData(c, x, y, z, z0) ==
    [c EXCEPT !._xyz = [i \in 1 .. Len(c._xyz) |->
                          <<IF x.some THEN Get(x)[i] ELSE c._xyz[i][1],
                            IF y.some THEN Get(y)[i] ELSE c._xyz[i][2],
                            IF z.some THEN Get(z)[i] ELSE c._xyz[i][3]>>],
              !.z0 = IF z0.some THEN Get(z0) ELSE c.z0]
\* The heights of the bars, self.z.
HeightsOf(c) == [i \in 1 .. Len(c._xyz) |-> c._xyz[i][3]]
\* Lines 1266-1272 with clim=None: the heights are the mappable array and
\* their range the colour limits.
WithArray(c) ==
    [c EXCEPT !._A = Some(HeightsOf(c)),
              !.clim = Some(<<MinOf(HeightsOf(c)), MaxOf(HeightsOf(c))>>)]
\* Lines 1274-1278: on axes that hold a projection matrix, the bars are
\* projected; axes is Nothing when the collection is on no such axes.
ProjectedOn(c, axes) ==
    IF axes.some
    THEN [raised |-> bar_do_3d_projection(c, Get(axes)).raised,
          col |-> bar_do_3d_projection(c, Get(axes)).col]
    ELSE [raised |-> "none", col |-> c]

\* Bar3DCollection.set_data, lines 1250-1278, with at least one of x, y, z
\* and z0 given and clim=None.
set_data(c, x, y, z, z0, axes) ==
    ProjectedOn(WithArray(bar_set_verts(WithData(c, x, y, z, z0))), axes)

\* Bar3DCollection.set_z, lines 1243-1244, and the setters of the
\* properties x and y, lines 1223-1233.
set_z(c, z, z0, axes) == set_data(c, Nothing, Nothing, Some(z), z0, axes)
set_x(c, x, axes) == set_data(c, Some(x), Nothing, Nothing, Nothing, axes)
set_y(c, y, axes) == set_data(c, Nothing, Some(y), Nothing, Nothing, axes)

\* Poly3DCollection.get_facecolor and get_edgecolor, lines 1134-1148, on a
\* Bar3DCollection: the projection they run first when the cache does not
\* exist is the Bar3DCollection's.
BarEnsureProjected(c, ax) ==
    IF c.projected THEN [raised |-> "none", col |-> c] ELSE bar_do_3d_projection(c, ax)
bar_get_facecolor(c, ax) == FaceColours2d(BarEnsureProjected(c, ax))
bar_get_edgecolor(c, ax) == EdgeColours2d(BarEnsureProjected(c, ax))

\* Bar3DCollection.__init__, lines 1160-1199, for a = [xy, z, dxy, alpha,
\* shade]: bars at the points xy with heights z on the plane z0 = 0, a number
\* dxy for their width and breadth, default colours and no colormap.
BarFields(a) ==
    [_xyz |-> [i \in 1 .. Len(a.xy) |-> <<a.xy[i][1], a.xy[i][2], a.z[i]>>],
     dx |-> a.dxy, dy |-> a.dxy, z0 |-> 0,
     _original_alpha |-> a.alpha, _shade |-> a.shade]
BarInit(fields) ==
    [kind |-> "Bar3DCollection"] @@ fields @@
    Poly3DCollection([verts |-> _compute_verts(fields), zsort |-> "average", shade |-> FALSE,
                      facecolors |-> Nothing, edgecolors |-> Nothing]).col
Bar3DCollection(a) == [raised |-> "none", col |-> BarInit(BarFields(a))]

(***************************************************************************)
(* Bar3DCollection runs: construction, then the public methods in any      *)
(* order: set_z0, set_z, set_data and the setters of x and y, the methods  *)
(* of Poly3DCollection (set_zsort, set_sort_zpos, set_verts, get_vector,   *)
(* set_verts_and_codes, set_3d_properties, set_alpha, set_facecolor,       *)
(* set_edgecolor and the getters), and projections under changing cameras. *)
(***************************************************************************)
\* One bar, or two bars that differ along one axis.
BarLayouts == {<<<<0, 0>>>>, <<<<0, 0>>, <<2, 0>>>>, <<<<0, 2>>, <<0, 0>>>>}
\* Every bar is of height 1.
BarHeights(xy) == [i \in 1 .. Len(xy) |-> 1]
BarArgs ==
    UNION {[xy : {xy}, z : {BarHeights(xy)}, dxy : {1},
            alpha : {<<1, 1>>, <<1, 2>>}, shade : BOOLEAN] : xy \in BarLayouts}

Azimuths == {-60, 120}
Elevations == {-30, 0, 30, 180, 210}
\* The matrix the axes of the bars store: depth -z.
BarViews == {M \in Views : M[3] = <<0, 0, -1, 0>>}
\* The axes: the camera angles, the stored projection matrix and the upper
\* x and y limits.
AllCameras == [azim : Azimuths, elev : Elevations, M : BarViews, xmax : {4}, ymax : {4}]
\* The cameras of the runs: every elevation at azimuth -60, and the opposite
\* azimuth at the elevation 30.
Cameras == {cam \in AllCameras : cam.azim = -60 \/ cam.elev = 30}
\* self.axes where set_data and the getters read it: no axes with a matrix,
\* or axes with one.
BarAxes == {Nothing} \cup {Some(ax) : ax \in {cam \in Cameras : cam.azim = -60 /\ cam.elev = 30}}

\* The arguments of the setters: the bars moved by one along x or along y,
\* heights that grow from bar to bar, and the plane z0 = 1.
NewX(c) == [i \in 1 .. Len(c._xyz) |-> c._xyz[i][1] + 1]
NewY(c) == [i \in 1 .. Len(c._xyz) |-> c._xyz[i][2] + 1]
NewZ(c) == [i \in 1 .. Len(c._xyz) |-> i + 1]
NewZ0s == {1}

InitBar ==
    /\ args \in BarArgs
    /\ col = None /\ drawn = None
    /\ pc = "new"
    /\ exc = "none"
    /\ last = NoCall
    /\ result = None
    /\ inp = None /\ gen = None
    /\ _mask = None /\ _traj = <<>> /\ _current_xy = None
    /\ seed = None /\ it = None /\ fwd = None /\ trajectories = <<>>
    /\ maskAtStart = None
    /\ owner = None /\ trajId = 0
    /\ NoGen
    /\ grid = None /\ probe = None

ConstructBar ==
    /\ pc = "new"
    /\ Constructed3d(Bar3DCollection(args))
    /\ UNCHANGED <<args, drawn, result, streamplotVars>>

\* do_3d_projection returned or raised under the axes ax: r is its outcome.
BarProjected(r, ax) ==
    /\ col' = r.col
    /\ exc' = r.raised
    /\ pc' = IF r.raised = "none" THEN "ready" ELSE "raised"
    /\ result' = [ret |-> r.ret]
    /\ last' = [azim |-> ax.azim, elev |-> ax.elev] @@
               [NoCall EXCEPT !.call = "do_3d_projection", !.M = ax.M, !.idxs = r.idxs,
                              !.setters = last.setters]

ProjectBar ==
    /\ pc = "ready"
    /\ \E ax \in Cameras : BarProjected(bar_do_3d_projection(col, ax), ax)
    /\ UNCHANGED <<args, drawn, streamplotVars>>

\* set_data, called by name, returned or raised: r is its outcome.
DataSet(name, r) ==
    /\ last.setters < SetterBudget
    /\ col' = r.col
    /\ exc' = r.raised
    /\ pc' = IF r.raised = "none" THEN "ready" ELSE "raised"
    /\ last' = [NoCall EXCEPT !.call = name, !.setters = last.setters + 1]
    /\ result' = None
    /\ UNCHANGED <<args, drawn, streamplotVars>>

SetZ0 == \E z0 \in NewZ0s : SetterReturned("set_z0", set_z0(col, z0))

SetZ ==
    /\ pc = "ready"
    /\ \E axes \in BarAxes : DataSet("set_z", set_z(col, NewZ(col), Nothing, axes))

SetX ==
    /\ pc = "ready"
    /\ \E axes \in BarAxes : DataSet("x", set_x(col, NewX(col), axes))

SetY ==
    /\ pc = "ready"
    /\ \E axes \in BarAxes : DataSet("y", set_y(col, NewY(col), axes))

\* set_data(z=z, z0=z0).
SetData ==
    /\ pc = "ready"
    /\ \E axes \in BarAxes, z0 \in NewZ0s :
          DataSet("set_data", set_data(col, Nothing, Nothing, Some(NewZ(col)), Some(z0), axes))

\* set_verts_and_codes with the faces of the bars and codes for each.
SetVertsAndCodesBar ==
    /\ pc = "ready"
    /\ SetterReturned("set_verts_and_codes",
                      set_verts_and_codes(col, _compute_verts(col),
                                          [i \in 1 .. Len(col._segslices) |-> PathCodes(i)]))

GetFacecolorBar ==
    /\ pc = "ready"
    /\ \E ax \in {Get(axes) : axes \in BarAxes \ {Nothing}} :
          Got("get_facecolor", bar_get_facecolor(col, ax))

GetEdgecolorBar ==
    /\ pc = "ready"
    /\ \E ax \in {Get(axes) : axes \in BarAxes \ {Nothing}} :
          Got("get_edgecolor", bar_get_edgecolor(col, ax))

NextBar ==
    \/ ConstructBar
    \/ SetZ0
    \/ SetZ
    \/ SetX
    \/ SetY
    \/ SetData
    \/ SetZsort
    \/ SetSortZpos
    \/ SetVerts
    \/ GetVector
    \/ SetVertsAndCodesBar
    \/ SetProperties3d
    \/ SetAlpha
    \/ SetFacecolor
    \/ SetEdgecolor
    \/ ProjectBar
    \/ GetFacecolorBar
    \/ GetEdgecolorBar

SpecBar == InitBar /\ [][NextBar]_vars

\* The bars were just projected.
BarsProjected == last.call = "do_3d_projection" /\ exc = "none"
\* The 0-based indices of the faces the projection emitted.
Emitted == {last.idxs[k] : k \in 1 .. Len(last.idxs)}
\* Face fc (0-based, in CUBOID's order) is on the far side of the prism, or
\* on its near side: its outward normal points away from the camera, or
\* towards it.  The camera is farther out than every bar.
TowardsCamera(fc) ==
    Normal(CUBOID[fc + 1])[1] * CameraSigns(last)[1]
      + Normal(CUBOID[fc + 1])[2] * CameraSigns(last)[2]
      + Normal(CUBOID[fc + 1])[3] * CameraSigns(last)[3]
FarSide(fc) == TowardsCamera(fc) < 0
NearSide(fc) == TowardsCamera(fc) > 0
\* The faces in the back half of the panel sequence.
BackHalf == {PrismSequence(last, 4)[k] : k \in 1 .. 3}

\* C17: faces of bars are left out of the sorted 2D output only when the
\* bars are opaque (alpha 1): with transparency every face of every bar is
\* emitted; when opaque, under every camera, exactly the faces on the far
\* side of the prism (the back half of the panel sequence) are skipped, and
\* the 2D paths and colours are those of the emitted faces.
C17_OnlyFarFacesOfOpaqueBarsSkipped ==
    BarsProjected =>
        /\ col._original_alpha # <<1, 1>> => Emitted = 0 .. Len(col._xyz) * _n_faces - 1
        /\ col._original_alpha = <<1, 1>> =>
              \A b \in 0 .. Len(col._xyz) - 1 : \A fc \in 0 .. _n_faces - 1 :
                 /\ (b * _n_faces + fc \notin Emitted) <=> fc \in BackHalf
                 /\ FarSide(fc) => b * _n_faces + fc \notin Emitted
                 /\ NearSide(fc) => b * _n_faces + fc \in Emitted
        /\ Len(col._paths) = Len(last.idxs)
        /\ Len(col._facecolors2d) = Len(last.idxs)
        /\ \A k \in 1 .. Len(last.idxs) :
              col._paths[k].vertices =
                  [v \in 1 .. 4 |->
                      <<_proj_transform_vec(_compute_verts(col)[last.idxs[k] + 1][v], last.M)[1],
                        _proj_transform_vec(_compute_verts(col)[last.idxs[k] + 1][v], last.M)[2]>>]

====
